---- MODULE Spec2Model ----
(***************************************************************************)
(* Tag search box: the Tag List Controller (TagSearchBox) together with    *)
(* the events its tag inputs (TagInput, Tag) dispatch to it.               *)
(*                                                                         *)
(* Indices are the code's 0-based indices; sequences are 1-based, so the   *)
(* tag at code index i is tags[i + 1].  Text is a sequence of characters.  *)
(***************************************************************************)
EXTENDS Integers, Sequences, FiniteSets, TLC

(***************************************************************************)
(* Bounds of the model.                                                    *)
(***************************************************************************)
MaxTags == 2
MaxCounter == 3
MaxTimers == 1
MaxPending == 1
MaxInputTimers == 1
MaxBuffer == 5
MaxInputTags == 1
MaxMounts == 2

(***************************************************************************)
(* Text.                                                                   *)
(***************************************************************************)
Space == " "
Bar == "|"
Colon == ":"
\* the full-width colon U+FF1A, one character
FullWidthColon == "fw:"

RECURSIVE TrimLeft(_)
TrimLeft(s) ==
  IF s # <<>> /\ Head(s) = Space THEN TrimLeft(Tail(s)) ELSE s

RECURSIVE TrimRight(_)
TrimRight(s) ==
  IF s # <<>> /\ s[Len(s)] = Space
  THEN TrimRight(SubSeq(s, 1, Len(s) - 1))
  ELSE s

trim(s) == TrimRight(TrimLeft(s))

RECURSIVE split(_, _)
split(s, sep) ==
  IF \E i \in 1..Len(s) : s[i] = sep
  THEN LET i == CHOOSE k \in 1..Len(s) :
                   s[k] = sep /\ \A j \in 1..(k - 1) : s[j] # sep
       IN  <<SubSeq(s, 1, i - 1)>> \o split(SubSeq(s, i + 1, Len(s)), sep)
  ELSE <<s>>

RECURSIVE join(_, _)
join(list, sep) ==
  IF list = <<>> THEN <<>>
  ELSE IF Len(list) = 1 THEN list[1]
  ELSE list[1] \o sep \o join(Tail(list), sep)

\* str.indexOf(prefix) === 0
startsWith(s, p) == Len(p) <= Len(s) /\ SubSeq(s, 1, Len(p)) = p

mapNames(values) == [i \in 1..Len(values) |-> values[i].name]

(***************************************************************************)
(* The Attribute Catalog supplied by the host.                             *)
(***************************************************************************)
NoAttr == "null"

Attributes == <<
  [key |-> "status", name |-> <<"S">>, type |-> "single",
   reusable |-> FALSE, removeable |-> TRUE],
  [key |-> "type", name |-> <<"T">>, type |-> "input",
   reusable |-> FALSE, removeable |-> FALSE],
  [key |-> "region", name |-> <<"R">>, type |-> "multiple",
   reusable |-> TRUE, removeable |-> TRUE] >>

AttrKeys == {Attributes[i].key : i \in 1..Len(Attributes)}

\* the catalog entry merged into a tag's attr at render time
AttributeOf(key) ==
  Attributes[CHOOSE i \in 1..Len(Attributes) : Attributes[i].key = key]

FocusPosType == [INPUT |-> 0, INPUT_EDIT |-> 1, TAG |-> 2]

(***************************************************************************)
(* Tags.  A tag is [attr, values, key, edit]: attr is an attribute key or  *)
(* NoAttr, key is the _key field and edit the _edit field.                 *)
(***************************************************************************)
NoKey == -1
\* props.value is [given, list]; given is false when the host passes none
NoValue == [given |-> FALSE, list |-> <<>>]

VARIABLES
  active,       \* useState(false)
  curPos,       \* useState(0)
  curPosType,   \* useState(FocusPosType.INPUT)
  showSelect,   \* useState(true)
  tags,         \* useState(defaultValue ...)
  COUNTER,      \* module-level id counter
  value,        \* props.value, NoValue when the host supplies none
  onDeleteTag,  \* TRUE when the host configured props.onDeleteTag
  disabled,     \* props.disabled
  inEditing,    \* keys of the Tag components whose inEditing state is true
  editInfo,     \* history, in the behaviours that keep it: for each of
                \* these keys the {attr, values} that Tag.edit handed to
                \* setInfo when it opened the editor
  timers,       \* callbacks scheduled with setTimeout(cb, 0), oldest first
  pending,      \* "del" handlers suspended at await onDeleteTag(...)
  out,          \* the step just taken: its handler (by), or the call of
                \* onChange it made with its list, and whether it threw
  catalog,      \* props.attributes as the host passes it
  input,        \* useState of the trailing TagInput
  inputTimers,  \* callbacks the trailing TagInput scheduled with
                \* setTimeout(cb, 0), each with the render it closed over
  sent,         \* what the last step of the trailing TagInput dispatched,
                \* returned and parsed
  select        \* a ValueSelect: its props, its state.values, whether it is
                \* mounted, and the promises its values() calls returned

boxVars == <<active, curPos, curPosType, showSelect, tags, COUNTER, value,
             onDeleteTag, disabled, inEditing, editInfo, timers, pending,
             out>>

inputVars == <<catalog, input, inputTimers, sent, select>>

vars == <<boxVars, inputVars>>

\* the component state one render closes over
Cur == [active |-> active, curPos |-> curPos, curPosType |-> curPosType,
        showSelect |-> showSelect, tags |-> tags, COUNTER |-> COUNTER,
        value |-> value, onDeleteTag |-> onDeleteTag,
        disabled |-> disabled, inEditing |-> inEditing, timers |-> timers,
        pending |-> pending,
        threw |-> FALSE]

keysOf(list) == {list[i].key : i \in 1..Len(list)}

\* no history of the editors is kept
NoInfo == [kept |-> FALSE, info |-> <<>>]

\* { attr, values } of the Tag with the key k, as Tag.edit reads them
infoOf(list, k) ==
  LET i == CHOOSE j \in 1..Len(list) : list[j].key = k
  IN  [attr |-> list[i].attr, values |-> list[i].values]

\* newTags[index] is defined
hasTag(list, index) == index >= 0 /\ index < Len(list)

\* Array.prototype.splice(index, 1)
spliceOut(list, index) ==
  IF hasTag(list, index)
  THEN SubSeq(list, 1, index) \o SubSeq(list, index + 2, Len(list))
  ELSE list

\* a faulty spliceIn: the item goes to the front
spliceInFront(list, index, item) == <<item>> \o list

\* Array.prototype.splice(index, 0, item): an index past the end appends
spliceIn(list, index, item) ==
  LET at == IF index > Len(list) THEN Len(list) ELSE index
  IN  SubSeq(list, 1, at) \o <<item>> \o SubSeq(list, at + 1, Len(list))

(***************************************************************************)
(* Derived view: the attributes still offered to each position.            *)
(***************************************************************************)
\* a faulty tagSelectedAttrKeys: an editing tag skips every tag, not only the
\* tags of its own attribute
tagSelectedAttrKeysSkipAll(list, index) ==
  LET item == list[index + 1]
      skipped(tag) == /\ tag.attr # NoAttr
                      /\ item.attr # NoAttr
                      /\ item.edit
      pushed(tag) == tag.attr # NoAttr /\ ~AttributeOf(tag.attr).reusable
  IN  {list[j].attr : j \in {k \in 1..Len(list) :
                               ~skipped(list[k]) /\ pushed(list[k])}}

\* the selectedAttrKeys computed for the tag at index while rendering tagList
tagSelectedAttrKeys(list, index) ==
  LET item == list[index + 1]
      skipped(tag) == /\ tag.attr # NoAttr
                      /\ item.attr # NoAttr
                      /\ item.edit
                      /\ item.attr = tag.attr
      pushed(tag) == tag.attr # NoAttr /\ ~AttributeOf(tag.attr).reusable
  IN  {list[j].attr : j \in {k \in 1..Len(list) :
                               ~skipped(list[k]) /\ pushed(list[k])}}

tagUseableAttributes(list, index) ==
  SelectSeq(Attributes,
            LAMBDA item : item.key \notin tagSelectedAttrKeys(list, index))

\* the selectedAttrKeys computed for the trailing input
selectedAttrKeys(list) ==
  {list[j].attr : j \in {k \in 1..Len(list) :
       list[k].attr # NoAttr /\ ~AttributeOf(list[k].attr).reusable}}

\* a faulty useableAttributes: the trailing input is offered every attribute
useableAttributesUnfiltered(list) == Attributes

useableAttributes(list) ==
  SelectSeq(Attributes, LAMBDA item : item.key \notin selectedAttrKeys(list))

(***************************************************************************)
(* What a TagInput dispatches.  st is the input's stored state             *)
(* [attribute, values, inputValue]; attributes is its attributes prop.     *)
(***************************************************************************)
NoEvent == [type |-> "none", attr |-> NoAttr, values |-> <<>>]

\* setInputValue: the first attribute whose name and a separator start text
RECURSIVE findAttribute(_, _)
findAttribute(text, attributes) ==
  IF attributes = <<>> THEN NoAttr
  ELSE IF \/ startsWith(text, Head(attributes).name \o <<Colon>>)
          \/ startsWith(text, Head(attributes).name \o <<FullWidthColon>>)
       THEN Head(attributes).key
       ELSE findAttribute(text, Tail(attributes))

\* a faulty keyword list: the first segment only
keywordListFirst(inputValue) ==
  LET kept == SelectSeq(split(inputValue, Bar),
                        LAMBDA item : Len(trim(item)) > 0)
  IN  IF kept = <<>> THEN <<>> ELSE <<[name |-> trim(kept[1])]>>

\* the keyword list of addTagByInputValue
keywordList(inputValue) ==
  LET kept == SelectSeq(split(inputValue, Bar),
                        LAMBDA item : Len(trim(item)) > 0)
  IN  [i \in 1..Len(kept) |-> [name |-> trim(kept[i])]]

addTagByInputValue(st, attributes, type) ==
  IF /\ st.attribute # NoAttr
     /\ Len(SelectSeq(attributes,
                      LAMBDA item : item.key = st.attribute)) > 0
  THEN IF Len(st.values) <= 0
       THEN NoEvent
       ELSE [type |-> type, attr |-> st.attribute, values |-> st.values]
  ELSE IF Len(trim(st.inputValue)) <= 0
       THEN NoEvent
       ELSE [type |-> type, attr |-> NoAttr,
             values |-> keywordList(st.inputValue)]

\* the text Tag.edit hands to setInfo and setInfo to setInputValue
setInfoText(tag) ==
  IF tag.attr # NoAttr
  THEN AttributeOf(tag.attr).name \o <<Colon, Space>>
         \o join(mapNames(tag.values), <<Space, Bar, Space>>)
  ELSE join(mapNames(tag.values), <<Space, Bar, Space>>)

(***************************************************************************)
(* TagSearchBox.  Every handler maps the state c its render closed over    *)
(* to the state after the handler's setState calls.                        *)
(***************************************************************************)
\* a callback handed to setTags: which one, and the values it closed over
callback(kind, index, act) == [kind |-> kind, index |-> index, active |-> act]

\* setTimeout(cb, 0).  by names the handler that scheduled it.  A cb that
\* neither notifies nor holds a callback does nothing and is not kept.
schedule(c, by, notify, newTags, cb) ==
  IF ~notify /\ cb.kind = "none"
  THEN c
  ELSE [c EXCEPT !.timers =
          Append(@, [by |-> by, notify |-> notify,
                     newTags |-> IF notify THEN newTags ELSE <<>>,
                     cb |-> cb])]

\* props.value.map(...): an item without _key takes COUNTER++
RECURSIVE assignKeys(_, _)
assignKeys(items, counter) ==
  IF items = <<>>
  THEN [list |-> <<>>, counter |-> counter]
  ELSE LET item == Head(items)
           fresh == item.key = NoKey
           rest == assignKeys(Tail(items),
                              IF fresh THEN counter + 1 ELSE counter)
       IN  [list |-> <<IF fresh THEN [item EXCEPT !.key = counter]
                       ELSE item>> \o rest.list,
            counter |-> rest.counter]

resetTagsState(c, v, by, notify, newTags, cb) ==
  LET keyed == assignKeys(v.list, c.COUNTER)
  IN  schedule([c EXCEPT !.tags = keyed.list, !.COUNTER = keyed.counter],
               by, notify, newTags, cb)

\* the effect that follows a render with a props.value other than lastValue
valueSync(c, v) ==
  LET keyed == assignKeys(v, c.COUNTER)
  IN  [c EXCEPT !.value = [given |-> TRUE, list |-> v],
                !.tags = keyed.list, !.COUNTER = keyed.counter]

\* a faulty setTags: the new list is written also when the host owns it
setTagsLocal(c, v, by, newTags, cb, shouldNotify) ==
  schedule([c EXCEPT !.tags = newTags], by, shouldNotify, newTags, cb)

\* v is the props.value the calling render closed over
setTags(c, v, by, newTags, cb, shouldNotify) ==
  IF shouldNotify /\ v.given
  THEN resetTagsState(c, v, by, shouldNotify, newTags, cb)
  ELSE schedule([c EXCEPT !.tags = newTags], by, shouldNotify, newTags, cb)

\* a faulty getValue: nothing is filtered
getValueUnfiltered(list) == list

getValue(list) == SelectSeq(list, LAMBDA item : Len(item.values) > 0)

setCurPos(c, index) == [c EXCEPT !.curPos = index]

\* tagRefs.current[`tag-${index}`]?.editDone()
editDone(c, index) ==
  IF hasTag(c.tags, index)
  THEN [c EXCEPT !.inEditing = @ \ {c.tags[index + 1].key}]
  ELSE c

tagAdd(c, index, payload) ==
  LET item == [attr |-> payload.attr, values |-> payload.values,
               key |-> c.COUNTER, edit |-> FALSE]
      c1 == setTags([c EXCEPT !.COUNTER = @ + 1], c.value, "add",
                    spliceIn(c.tags, index + 1, item),
                    callback("focus", index + 1, FALSE), TRUE)
  IN  setCurPos([c1 EXCEPT !.showSelect = FALSE], index + 1)

\* a faulty tagEditCommit: the _edit flag of the tag is left set
tagEditCommitKeepsFlag(c, index, payload) ==
  LET newTags == [c.tags EXCEPT ![index + 1].attr = payload.attr,
                                ![index + 1].values = payload.values]
      c1 == setTags(editDone(c, index), c.value, "edit", newTags,
                    callback("none", index, FALSE), TRUE)
  IN  setCurPos([c1 EXCEPT !.showSelect = FALSE,
                           !.curPosType = FocusPosType.INPUT], index + 1)

tagEditCommit(c, index, payload) ==
  LET newTags == [c.tags EXCEPT ![index + 1].attr = payload.attr,
                                ![index + 1].values = payload.values,
                                ![index + 1].edit = FALSE]
      c1 == setTags(editDone(c, index), c.value, "edit", newTags,
                    callback("none", index, FALSE), TRUE)
  IN  setCurPos([c1 EXCEPT !.showSelect = FALSE,
                           !.curPosType = FocusPosType.INPUT], index + 1)

tagEditCancel(c, index) ==
  LET c1 == setTags(editDone(c, index), c.value, "edit-cancel", c.tags,
                    callback("none", index, FALSE), FALSE)
  IN  setCurPos([c1 EXCEPT !.showSelect = FALSE,
                           !.curPosType = FocusPosType.INPUT], index)

\* a faulty tagEditing: the preview notifies the host
tagEditingNotifies(c, index, attr) ==
  LET newTags == IF hasTag(c.tags, index)
                 THEN [c.tags EXCEPT ![index + 1].attr = attr]
                 ELSE c.tags
  IN  setCurPos(setTags(c, c.value, "editing", newTags,
                        callback("none", index, FALSE), TRUE), index)

\* the payload of "editing" is {attr} only
tagEditing(c, index, attr) ==
  LET newTags == IF hasTag(c.tags, index)
                 THEN [c.tags EXCEPT ![index + 1].attr = attr]
                 ELSE c.tags
  IN  setCurPos(setTags(c, c.value, "editing", newTags,
                        callback("none", index, FALSE), FALSE), index)

\* a faulty delTarget: a keyboard delete aims at the tag of its own index
delTargetSame(index, payload) == index

delTarget(index, payload) ==
  IF payload = "keyboard" THEN index - 1 ELSE index

\* a faulty delConfirmed: the removable check is left out
delConfirmedUnchecked(c, v, newTags, index, payload) ==
  LET c1 == setTags(c, v, "del", spliceOut(newTags, index),
                    callback("del", index, FALSE), TRUE)
  IN  IF payload # "edit"
      THEN [c1 EXCEPT !.showSelect = FALSE]
      ELSE c1

\* "del" after the await: the removable check, the splice and setTags
delConfirmed(c, v, newTags, index, payload) ==
  LET attr == newTags[index + 1].attr
  IN  IF attr # NoAttr /\ AttributeOf(attr).removeable = FALSE
      THEN c
      ELSE LET c1 == setTags(c, v, "del", spliceOut(newTags, index),
                             callback("del", index, FALSE), TRUE)
           IN  IF payload # "edit"
               THEN [c1 EXCEPT !.showSelect = FALSE]
               ELSE c1

\* "del" up to the await; without onDeleteTag the handler runs through
tagDel(c, index0, payload) ==
  LET index == delTarget(index0, payload)
  IN  IF ~hasTag(c.tags, index)
      THEN setCurPos(c, index)
      ELSE IF c.onDeleteTag
      THEN [c EXCEPT !.pending =
              Append(@, [index |-> index, payload |-> payload,
                         newTags |-> c.tags, value |-> c.value])]
      ELSE setCurPos(delConfirmed(c, c.value, c.tags, index, payload), index)

\* a faulty delResume: the answer of onDeleteTag is not looked at
delResumeIgnoresVeto(c, p, outcome) ==
  IF outcome = "reject"
  THEN [c EXCEPT !.threw = TRUE]
  ELSE setCurPos(delConfirmed(c, p.value, p.newTags, p.index, p.payload),
                 p.index)

\* the handler p resumes when its onDeleteTag promise settles
delResume(c, p, outcome) ==
  IF outcome = "reject"
  THEN [c EXCEPT !.threw = TRUE]
  ELSE IF outcome = "false"
  THEN setCurPos(c, p.index)
  ELSE setCurPos(delConfirmed(c, p.value, p.newTags, p.index, p.payload),
                 p.index)

tagClickInput(c, index, payload) ==
  setCurPos([c EXCEPT !.curPosType = IF payload = "edit"
                                     THEN FocusPosType.INPUT_EDIT
                                     ELSE FocusPosType.INPUT,
                      !.active = TRUE,
                      !.showSelect = TRUE], index)

open(c) ==
  IF c.disabled
  THEN c
  ELSE IF ~c.active
  THEN [c EXCEPT !.active = TRUE, !.curPosType = FocusPosType.INPUT,
                 !.curPos = Len(c.tags), !.showSelect = TRUE]
  ELSE tagClickInput(c, Len(c.tags), "undefined")

tagClick(c, index) ==
  IF ~c.active
  THEN open(c)
  ELSE LET newTags == [c.tags EXCEPT ![index + 1].edit = TRUE]
           c1 == setTags(c, c.value, "click", newTags,
                         callback("click", index, FALSE), FALSE)
       IN  setCurPos([c1 EXCEPT !.curPosType = FocusPosType.INPUT_EDIT],
                     index)

close(c) ==
  LET updatedTags == [i \in 1..Len(c.tags) |->
                        [c.tags[i] EXCEPT !.edit = FALSE]]
      edited == {c.tags[i].key : i \in {k \in 1..Len(c.tags) : c.tags[k].edit}}
  IN  setTags([c EXCEPT !.inEditing = @ \ edited], c.value, "close",
              updatedTags, callback("close", 0, c.active), FALSE)

handleClear(c) ==
  LET nextTags == SelectSeq(c.tags, LAMBDA i :
                    i.attr # NoAttr /\ AttributeOf(i.attr).removeable = FALSE)
  IN  IF Len(c.tags) <= 0
      THEN c
      ELSE LET c1 == setTags(c, c.value, "clear", nextTags,
                             callback("clear", Len(nextTags), FALSE), TRUE)
           IN  [c1 EXCEPT !.curPos = 0, !.curPosType = FocusPosType.INPUT]

\* the loop of handleSearch over the tags of its closure c0: every tag
\* flagged _edit commits what its editor holds, est[i], by an "edit" event
\* whose handler closed over the tags of c0 as well
RECURSIVE searchEdits(_, _, _, _)
searchEdits(acc, c0, i, est) ==
  IF i >= Len(c0.tags)
  THEN acc
  ELSE LET ev == addTagByInputValue(est[i],
                                    tagUseableAttributes(c0.tags, i), "edit")
       IN  IF c0.tags[i + 1].edit /\ ev # NoEvent
           THEN searchEdits(
                  [c |-> tagEditCommit([acc.c EXCEPT !.tags = c0.tags], i, ev),
                   flag |-> TRUE], c0, i + 1, est)
           ELSE searchEdits(acc, c0, i + 1, est)

\* the search button: st is what the trailing input holds.  notified says
\* that nothing was committed and notify(tags) was called
handleSearch(c, st, est) ==
  IF ~c.active
  THEN [c |-> c, notified |-> FALSE]
  ELSE LET ev == addTagByInputValue(st, useableAttributes(c.tags), "add")
           c1 == IF ev # NoEvent THEN tagAdd(c, Len(c.tags), ev) ELSE c
           r == searchEdits([c |-> c1, flag |-> ev # NoEvent], c, 0, est)
       IN  [c |-> r.c, notified |-> ~r.flag]

\* the list the callback that handleSearch delays by 100 ms hands to
\* onSearchButtonClick: getValue of the tags of the render c in which the
\* click was handled
searchButtonTags(c) == getValue(c.tags)

\* setInputValue of the edit input of the tag at index, as far as it
\* dispatches: "del" for a blank text, else "editing" with the attribute found
editSetInputValue(c, index, text) ==
  IF Len(trim(text)) <= 0
  THEN tagDel(c, index, "edit")
  ELSE tagEditing(c, index,
                  findAttribute(text, tagUseableAttributes(c.tags, index)))

\* tagRefs.current[`tag-${index}`]?.edit(pos); the trailing input has no edit
tagRefEdit(c, index) ==
  IF hasTag(c.tags, index)
  THEN editSetInputValue(
         [c EXCEPT !.inEditing = @ \cup {c.tags[index + 1].key}],
         index, setInfoText(c.tags[index + 1]))
  ELSE IF index = Len(c.tags)
  THEN [c EXCEPT !.threw = TRUE]
  ELSE c

\* the callback of setTags after its notifyChange
runCallback(c, cb) ==
  CASE cb.kind = "del" -> [c EXCEPT !.curPosType = FocusPosType.INPUT]
    [] cb.kind = "close" ->
         IF cb.active
         THEN [c EXCEPT !.showSelect = FALSE, !.curPos = -1,
                        !.active = FALSE]
         ELSE [c EXCEPT !.showSelect = FALSE]
    [] cb.kind = "click" ->
         schedule([c EXCEPT !.showSelect = TRUE], "click", FALSE, <<>>,
                  callback("edit", cb.index, FALSE))
    [] cb.kind = "edit" -> tagRefEdit(c, cb.index)
    [] OTHER -> c

(***************************************************************************)
(* The state of one TagInput.  In the operators below s is the state the   *)
(* setState calls of a handler update, cl the state of the render the      *)
(* handler closed over (const { ... } = state), attributes the attributes  *)
(* prop of that render and type its type prop.  A handler yields           *)
(* [state, events, returned, timers]: the state after its updates, the tag *)
(* events it dispatched, what it returned and the callbacks it scheduled.  *)
(***************************************************************************)
NoInput ==
  [attribute |-> NoAttr, values |-> <<>>, inputValue |-> <<>>,
   showAttrSelect |-> FALSE, showValueSelect |-> FALSE, valueStr |-> <<>>]

done(s, events, returned, scheduled) ==
  [state |-> s, events |-> events, returned |-> returned,
   timers |-> scheduled]

\* the entry of attributes with the key given
entryOf(key, attributes) ==
  attributes[CHOOSE i \in 1..Len(attributes) : attributes[i].key = key]

\* the loop of getAttrStrAndValueStr: every match overwrites the result
RECURSIVE parseOver(_, _, _)
parseOver(acc, str, attributes) ==
  IF attributes = <<>>
  THEN acc
  ELSE LET name == Head(attributes).name
       IN  parseOver(
             IF startsWith(str, name \o <<Colon>>)
             THEN [attrStr |-> name,
                   valueStr |-> SubSeq(str, Len(name) + 2, Len(str)),
                   pos |-> Len(name)]
             ELSE acc,
             str, Tail(attributes))

getAttrStrAndValueStr(str, attributes) ==
  parseOver([attrStr |-> str, valueStr |-> <<>>, pos |-> -1], str,
            attributes)

\* a faulty refreshShow: the attribute suggestions whatever the caret
refreshShowAttributes(s, cl, attributes, start, end) ==
  [s EXCEPT !.showAttrSelect = TRUE, !.showValueSelect = FALSE]

\* start and end are selectionStart and selectionEnd of the input element
refreshShow(s, cl, attributes, start, end) ==
  LET pos == getAttrStrAndValueStr(cl.inputValue, attributes).pos
  IN  IF pos < 0 \/ start <= pos
      THEN [s EXCEPT !.showAttrSelect = TRUE, !.showValueSelect = FALSE]
      ELSE IF cl.attribute # NoAttr /\ end > pos
      THEN [s EXCEPT !.showAttrSelect = FALSE, !.showValueSelect = TRUE]
      ELSE s

\* a faulty valuesOf: the items are not trimmed
valuesOfUntrimmed(valueStr) ==
  LET items == split(valueStr, Bar)
  IN  [i \in 1..Len(items) |-> [name |-> items[i]]]

\* valueStr.split("|").map((item) => ({ name: item.trim() }))
valuesOf(valueStr) ==
  LET items == split(valueStr, Bar)
  IN  [i \in 1..Len(items) |-> [name |-> trim(items[i])]]

\* a faulty canonical: the text is stored as it was typed
canonicalAsTyped(text, key, attributes) == text

\* the text setInputValue stores for text; key is the attribute it found
canonical(text, key, attributes) ==
  LET name == entryOf(key, attributes).name
      valueStr == SubSeq(text, Len(name) + 2, Len(text))
  IN  IF key = NoAttr
      THEN text
      ELSE IF Len(TrimLeft(valueStr)) > 0
      THEN name \o <<Colon, Space>> \o TrimLeft(valueStr)
      ELSE name \o <<Colon>> \o valueStr

\* a faulty setInputValue: an editor stores a blank text like any other
setInputValueStoresBlank(s, cl, attributes, type, text) ==
  LET key == findAttribute(text, attributes)
  IN  [s EXCEPT !.inputValue = canonical(text, key, attributes),
                !.attribute = key,
                !.values = IF key # cl.attribute /\ key # NoAttr
                           THEN valuesOf(text)
                           ELSE cl.values]

\* setInputValue as far as it updates the state; what it dispatches in an
\* editor is editSetInputValue
setInputValue(s, cl, attributes, type, text) ==
  LET key == findAttribute(text, attributes)
      valueStr == IF key = NoAttr
                  THEN text
                  ELSE SubSeq(text, Len(entryOf(key, attributes).name) + 2,
                              Len(text))
      newValues == IF key # cl.attribute /\ key # NoAttr
                   THEN valuesOf(valueStr)
                   ELSE cl.values
  IN  IF type = "edit" /\ Len(trim(text)) <= 0
      THEN s
      ELSE [s EXCEPT !.inputValue = canonical(text, key, attributes),
                     !.attribute = key,
                     !.values = newValues]

resetInput(s, cl, attributes, type) ==
  setInputValue(s, cl, attributes, type, <<>>)

\* setInputValue as a whole: the events of an editor are "del" with the
\* payload "edit" for a blank text and "editing" with the attribute found
\* otherwise
setInputValueRun(s, cl, attributes, type, text) ==
  done(setInputValue(s, cl, attributes, type, text),
       IF type # "edit"
       THEN <<>>
       ELSE IF Len(trim(text)) <= 0
       THEN <<[type |-> "del", payload |-> "edit"]>>
       ELSE <<[type |-> "editing",
               attr |-> findAttribute(text, attributes)]>>,
       "none", <<>>)

\* setInfo with the attribute and the values of a tag
setInfo(s, cl, attributes, type, info) ==
  setInputValue([s EXCEPT !.attribute = info.attr, !.values = info.values],
                cl, attributes, type, setInfoText(info))

\* a faulty return value: true whenever the buffer holds a character
addTagByInputValueReturnsBuffer(cl, attributes) == Len(cl.inputValue) > 0

\* the value addTagByInputValue returns
addTagByInputValueReturn(cl, attributes) ==
  IF /\ cl.attribute # NoAttr
     /\ Len(SelectSeq(attributes,
                      LAMBDA item : item.key = cl.attribute)) > 0
  THEN ~(Len(cl.values) <= 0)
  ELSE ~(Len(trim(cl.inputValue)) <= 0)

\* addTagByInputValue as a whole
addTagByInputValueRun(s, cl, attributes, type) ==
  LET ev == addTagByInputValue(cl, attributes, type)
      hidden == [s EXCEPT !.showAttrSelect = FALSE,
                          !.showValueSelect = FALSE]
  IN  IF ~addTagByInputValueReturn(cl, attributes)
      THEN done(s, IF ev = NoEvent THEN <<>> ELSE <<ev>>, "false", <<>>)
      ELSE done(IF type # "edit"
                THEN resetInput(hidden, cl, attributes, type)
                ELSE hidden,
                IF ev = NoEvent THEN <<>> ELSE <<ev>>, "true", <<>>)

\* str.indexOf(part) >= 0
contains(str, part) ==
  \E i \in 0..(Len(str) - Len(part)) :
    SubSeq(str, i + 1, i + Len(part)) = part

\* selectValue leaves the state alone and schedules its refreshShow
handleAttrSelect(s, cl, attributes, type, attr) ==
  LET str == attr.name \o <<Colon, Space>>
      found == contains(cl.inputValue, str)
      s1 == IF found THEN s
            ELSE setInputValue(s, cl, attributes, type, str)
  IN  done([s1 EXCEPT !.values = <<>>], <<>>, "none",
           IF found THEN <<"selectValue">> ELSE <<>>)

\* a faulty handleValueSelect: the event carries the values stored before
handleValueSelectStored(s, cl, attributes, type, values) ==
  LET s1 == [s EXCEPT !.values = values]
  IN  done(IF type # "edit" THEN resetInput(s1, cl, attributes, type)
           ELSE s1,
           <<[type |-> type, attr |-> cl.attribute, values |-> cl.values]>>,
           "none", <<>>)

handleValueSelect(s, cl, attributes, type, values) ==
  LET s1 == [s EXCEPT !.values = values]
      name == IF cl.attribute = NoAttr THEN <<>>
              ELSE AttributeOf(cl.attribute).name
      offered == Len(SelectSeq(attributes,
                               LAMBDA item : item.key = cl.attribute)) > 0
  IN  IF Len(values) <= 0
      THEN done(setInputValue(s1, cl, attributes, type,
                              name \o <<Colon, Space>>),
                <<>>, "none", <<>>)
      ELSE done(IF type # "edit" THEN resetInput(s1, cl, attributes, type)
                ELSE s1,
                IF cl.attribute # NoAttr /\ offered
                THEN <<[type |-> type, attr |-> cl.attribute,
                        values |-> values]>>
                ELSE <<>>,
                "none", <<>>)

Comma == ","

\* value.replace(/[\r\n\t,]+/g, "|"): every run of commas becomes one bar.
\* The texts pasted here hold no digit, so that the test for an address,
\* which adds white space to the separators, is false.
RECURSIVE replaceRuns(_)
replaceRuns(text) ==
  IF text = <<>> THEN <<>>
  ELSE IF Head(text) # Comma THEN <<Head(text)>> \o replaceRuns(Tail(text))
  ELSE IF Len(text) > 1 /\ text[2] = Comma THEN replaceRuns(Tail(text))
  ELSE <<Bar>> \o replaceRuns(Tail(text))

\* split("|"), trim, drop the empty items, join(" | ")
normalize(text) ==
  LET items == split(replaceRuns(text), Bar)
      trimmed == [i \in 1..Len(items) |-> trim(items[i])]
  IN  join(SelectSeq(trimmed, LAMBDA item : Len(item) > 0),
           <<Space, Bar, Space>>)

\* start and end are the selection the pasted text replaces.  A callback
\* of focusInput changes no state and is not kept.
handlePaste(s, cl, attributes, type, text, start, end) ==
  LET curValue == SubSeq(cl.inputValue, 1, start) \o normalize(text)
                    \o SubSeq(cl.inputValue, end + 1, Len(cl.inputValue))
      s1 == setInputValue(s, cl, attributes, type, curValue)
  IN  IF cl.attribute # NoAttr /\ AttributeOf(cl.attribute).type # "input"
      THEN done(s, <<>>, "none", <<>>)
      ELSE IF cl.attribute # NoAttr
      THEN done(s1, <<>>, "none", <<>>)
      ELSE IF Len(cl.inputValue) > 0
      THEN done(s1, <<>>, "none", <<>>)
      ELSE done(s1, <<>>, "none", <<"addTagByInputValue">>)

\* handleValueChange: onChange of the value suggestions
handleValueChange(s, cl, attributes, type, values) ==
  LET name == IF cl.attribute = NoAttr THEN <<>>
              ELSE AttributeOf(cl.attribute).name
  IN  setInputValueRun([s EXCEPT !.values = values], cl, attributes, type,
                       name \o <<Colon, Space>>
                         \o join(mapNames(values), <<Space, Bar, Space>>))

\* a faulty handleValueCancel: outside an editor it leaves the input alone
handleValueCancelKeeps(s, cl, attributes, type) ==
  IF type = "edit"
  THEN done(s, <<[type |-> "edit-cancel", attr |-> cl.attribute,
                  values |-> cl.values]>>, "none", <<>>)
  ELSE done(s, <<>>, "none", <<>>)

\* handleValueCancel; the callback of resetInput is focusInput, which
\* changes no state and is not kept
handleValueCancel(s, cl, attributes, type) ==
  IF type = "edit"
  THEN done(s, <<[type |-> "edit-cancel", attr |-> cl.attribute,
                  values |-> cl.values]>>, "none", <<>>)
  ELSE done(resetInput(s, cl, attributes, type), <<>>, "none", <<>>)

\* the values of the table keys, and a key that is not in it
Keys == {"backspace", "tab", "enter", "esc", "left", "up", "right", "down"}

OtherKey == "other"

\* What valueSelectRef.current.handleKeyDown does with a key: whether it
\* is there at all, whether it returns false, and the callback it calls
\* with which values.
Absent == [present |-> FALSE, handled |-> FALSE, call |-> "none",
           values |-> <<>>]

Unhandled == [present |-> TRUE, handled |-> FALSE, call |-> "none",
              values |-> <<>>]

Handled(call, values) ==
  [present |-> TRUE, handled |-> TRUE, call |-> call, values |-> values]

\* The answers possible in the render with state cl.  The list of a single
\* or multiple attribute may be empty or loading, and no list is mounted
\* then; the component of an input attribute is left open.
valueSelectAnswers(cl, key, lists) ==
  IF ~(cl.showValueSelect /\ cl.attribute # NoAttr)
  THEN {Absent}
  ELSE LET kind == AttributeOf(cl.attribute).type
       IN  IF key \notin {"enter", "tab"}
           THEN {Unhandled}
           ELSE IF kind = "single" \/ (kind = "multiple" /\ key = "enter")
           THEN {Unhandled} \cup {Handled("onSelect", v) : v \in lists}
           ELSE IF kind = "multiple"
           THEN {Unhandled, Handled("none", <<>>)}
                  \cup {Handled("onChange", v) : v \in lists}
           ELSE {Unhandled, Handled("none", <<>>)}

\* the handlers handleKeyDown offers key to, in the order of the calls;
\* attrSelectRef is attached to no element, its current stays null
offeredTo(key, answer) ==
  IF key \in {"tab", "enter", "up", "down", "backspace"} /\ answer.present
  THEN <<"value">>
  ELSE <<>>

\* a faulty handleKeyDown: backspace asks for the delete whatever the buffer
\* holds, and no other key does anything
handleKeyDownDeletes(s, cl, attributes, type, key, focused, answer) ==
  IF key = "backspace"
  THEN done(s, <<[type |-> "del", payload |-> "keyboard"]>>, "none", <<>>)
  ELSE done(s, <<>>, "none", <<>>)

handleKeyDown(s, cl, attributes, type, key, focused, answer) ==
  LET nothing == done(s, <<>>, "none", <<>>)
      commit == addTagByInputValueRun(s, cl, attributes, type)
      cancel == handleValueCancel(s, cl, attributes, type)
  IN  IF key \notin Keys
      THEN nothing
      ELSE IF key = "backspace" /\ Len(cl.inputValue) > 0
      THEN nothing
      ELSE IF key \in {"left", "right"} /\ Len(cl.inputValue) > 0
      THEN done(s, <<>>, "none", <<"refreshShow">>)
      ELSE IF key = "esc"
      THEN done(cancel.state,
                (IF Len(cl.inputValue) = 0 THEN <<[type |-> "close"]>>
                 ELSE <<>>) \o cancel.events,
                "none", <<>>)
      ELSE IF answer.handled
      THEN CASE answer.call = "onSelect" ->
                  handleValueSelect(s, cl, attributes, type, answer.values)
             [] answer.call = "onChange" ->
                  handleValueChange(s, cl, attributes, type, answer.values)
             [] OTHER -> nothing
      ELSE IF key \in {"enter", "tab"}
      THEN done(commit.state,
                (IF ~focused
                 THEN <<[type |-> "click-input", payload |-> "undefined"]>>
                 ELSE <<>>) \o commit.events,
                commit.returned, <<>>)
      ELSE IF key = "backspace"
      THEN done(s, <<[type |-> "del", payload |-> "keyboard"]>>, "none",
                <<>>)
      ELSE nothing

\* the effect that follows a render whose inputValue differs from prev
valueStrEffect(prev, s, attributes) ==
  IF s.inputValue # prev.inputValue
  THEN [s EXCEPT !.valueStr =
          getAttrStrAndValueStr(s.inputValue, attributes).valueStr]
  ELSE s

(***************************************************************************)
(* ValueSelect.  sel is [mounted, id, type, source, values, promises]: id   *)
(* counts the instances mounted so far, source is props.values, values is  *)
(* state.values, and promises holds, for each call of props.values that    *)
(* returned a promise not yet resolved, the instance that called and the   *)
(* list the promise resolves to.  state.values is [array, items]: array    *)
(* is Array.isArray of it.                                                 *)
(***************************************************************************)
\* state.values when it holds the array list
arrayOf(list) == [array |-> TRUE, items |-> list]

\* no ValueSelect has been mounted
NoSelect ==
  [mounted |-> FALSE, id |-> 0, type |-> "", values |-> arrayOf(<<>>),
   source |-> [kind |-> "list", result |-> <<>>], promises |-> {}]

\* the constructor and componentDidMount of a new instance
mount(sel, type, source) ==
  LET initial == IF source.kind = "list" THEN source.result ELSE <<>>
  IN  [mounted |-> TRUE, id |-> sel.id + 1, type |-> type, source |-> source,
       values |-> IF source.kind = "function" THEN arrayOf(source.result)
                  ELSE arrayOf(initial),
       promises |-> IF source.kind = "promise"
                    THEN sel.promises
                           \cup {[owner |-> sel.id + 1,
                                  result |-> source.result]}
                    ELSE sel.promises]

\* componentWillUnmount
unmount(sel) == [sel EXCEPT !.mounted = FALSE]

\* a faulty resolved: the instance is not asked whether it is mounted
resolvedUnasked(sel, p) ==
  IF p.owner = sel.id
  THEN [sel EXCEPT !.promises = @ \ {p}, !.values = arrayOf(p.result)]
  ELSE [sel EXCEPT !.promises = @ \ {p}]

\* the then-callback of the promise p; an instance other than the last one
\* mounted has been unmounted
resolved(sel, p) ==
  IF p.owner = sel.id /\ sel.mounted
  THEN [sel EXCEPT !.promises = @ \ {p}, !.values = arrayOf(p.result)]
  ELSE [sel EXCEPT !.promises = @ \ {p}]

\* what render returns
rendered(sel) ==
  IF ~sel.mounted THEN "unmounted"
  ELSE IF sel.type = "input" THEN "PureInput"
  ELSE IF sel.type \in {"single", "multiple"}
  THEN IF ~sel.values.array THEN "Loading"
       ELSE IF Len(sel.values.items) = 0 THEN "Empty"
       ELSE IF sel.type = "single" THEN "SingleValueSelect"
       ELSE "MultipleValueSelect"
  ELSE "null"

(***************************************************************************)
(* Inputs of the events: what a tag input has stored when it commits, and  *)
(* the texts typed into an open editor.                                    *)
(***************************************************************************)
ValueA == [name |-> <<"a">>]

keywordState(buffer) ==
  [attribute |-> NoAttr, values |-> <<>>, inputValue |-> buffer]

\* an attribute recognised in the input and one value chosen for it
attributeState(attr) ==
  [attribute |-> attr.key, values |-> <<ValueA>>,
   inputValue |-> attr.name \o <<Colon, Space, "a">>]

InputStates ==
  {keywordState(<<>>), keywordState(<<"a">>)}
  \cup {attributeState(Attributes[i]) : i \in 1..Len(Attributes)}

EditTexts ==
  {<<>>, <<Space>>, <<"a">>}
  \cup {Attributes[i].name \o <<Colon>> : i \in 1..Len(Attributes)}
  \cup {Attributes[1].name \o <<FullWidthColon, "a">>}

\* the inputs explored together with the search button
SearchStates == {keywordState(<<>>), keywordState(<<"a">>)}

SearchEditTexts == {<<>>, <<"a">>}

\* what the inputs commit there: also a buffer that holds a separator only
SearchCommitStates == SearchStates \cup {keywordState(<<Bar>>)}

\* the inputs explored while the host supplies props.value
HostInputStates == {keywordState(<<"a">>), attributeState(Attributes[1])}

HostEditTexts == {<<"a">>}

\* the lists a host makes up itself: its items carry no _key
HostLists ==
  {<<>>,
   <<[attr |-> Attributes[1].key, values |-> <<ValueA>>, key |-> NoKey,
      edit |-> FALSE]>>}

ValueB == [name |-> <<"b">>]

\* the texts typed into the trailing input
InputTexts ==
  {<<>>, <<Space>>, <<"a">>, <<"a", Space, Bar, Space, "b">>,
   <<Space, Bar, Space>>, Attributes[1].name \o <<Colon, "a">>}

\* an attribute whose name starts with the name of the first attribute and
\* a colon
Prefixed ==
  [Attributes[3] EXCEPT
     !.name = Attributes[1].name \o <<Colon>> \o Attributes[3].name]

\* the attributes props of a host that changes them: the whole catalog, the
\* catalog without its first entry, and two with a collision of prefixes
Catalogs ==
  {Attributes, Tail(Attributes), <<Attributes[1], Prefixed>>,
   <<Prefixed, Attributes[1]>>}

\* the texts typed while the host changes the attributes
CatalogTexts ==
  {<<>>,
   Attributes[1].name \o <<Colon, "a">>,
   Attributes[1].name \o <<FullWidthColon, "a">>,
   Prefixed.name \o <<Colon>>}

\* the tags whose editors are opened and cancelled, and the texts typed
\* into these editors
EditedStates == {attributeState(Attributes[1])}

PreviewTexts == {<<"a">>, Attributes[3].name \o <<Colon>>}

\* the texts typed where the stored text, attribute and values are compared
\* with the text typed
TypeTexts ==
  {<<>>,
   <<"a">>,
   Attributes[1].name \o <<Colon>>,
   Attributes[1].name \o <<Colon, Space>>,
   Attributes[1].name \o <<Colon, "a", Space>>,
   Attributes[1].name \o <<FullWidthColon, "a">>,
   Attributes[1].name \o <<Colon, "a", Bar>>,
   Attributes[2].name \o <<Colon, "a">>}

\* the texts typed where keys are pressed
KeyTexts == {<<>>, <<"a">>, Attributes[1].name \o <<Colon, "a">>}

\* the keys pressed there
PressedKeys == {"backspace", "enter", "esc", "left"}

\* the values the value suggestions hand over there
KeyLists == {<<ValueA>>}

\* the value lists chosen in the value suggestions
ValueLists == {<<>>, <<ValueA, ValueB>>}

\* the texts on the clipboard
PasteTexts == {<<"a", Comma, "b">>}

\* the inputs explored while a delete veto is configured
VetoInputStates ==
  {keywordState(<<"a">>), attributeState(Attributes[2])}

VetoEditTexts == {<<>>}

\* the props of the value suggestions mounted: the types and, as values, a
\* list, a function that returns a list, a function that returns a promise
SelectTypes == {"input", "single", "multiple"}

SelectSources ==
  {[kind |-> k, result |-> l] :
     k \in {"list", "function", "promise"},
     l \in {<<>>, <<ValueA>>, <<ValueA, ValueB>>}}

(***************************************************************************)
(* The state machine.                                                      *)
(***************************************************************************)
\* a step of the trailing input that dispatched and returned nothing
Nothing == [events |-> <<>>, returned |-> "none"]

InputInit ==
  /\ catalog = Attributes
  /\ input = NoInput
  /\ inputTimers = <<>>
  /\ sent = Nothing
  /\ select = NoSelect

\* a step that calls nothing of the host and throws nothing
Quiet == [onChange |-> FALSE, by |-> "", list |-> <<>>, threw |-> FALSE]

Init ==
  /\ active = FALSE
  /\ curPos = 0
  /\ curPosType = FocusPosType.INPUT
  /\ showSelect = TRUE
  /\ tags = <<>>
  /\ COUNTER = 0
  /\ value = NoValue
  /\ onDeleteTag = FALSE
  /\ disabled = FALSE
  /\ inEditing = {}
  /\ editInfo = NoInfo
  /\ timers = <<>>
  /\ pending = <<>>
  /\ out = Quiet
  /\ InputInit

\* commit the state c; a Tag that left the list unmounts with its state
CommitBox(c) ==
  /\ tags' = c.tags
  /\ active' = c.active
  /\ curPos' = c.curPos
  /\ curPosType' = c.curPosType
  /\ showSelect' = c.showSelect
  /\ COUNTER' = c.COUNTER
  /\ value' = c.value
  /\ onDeleteTag' = c.onDeleteTag
  /\ disabled' = c.disabled
  /\ inEditing' = c.inEditing \cap keysOf(c.tags)
  /\ editInfo' =
       IF ~editInfo.kept
       THEN editInfo
       ELSE [editInfo EXCEPT !.info =
               [k \in c.inEditing \cap keysOf(c.tags) |->
                  IF k \in inEditing THEN editInfo.info[k]
                  ELSE IF k \in keysOf(tags) THEN infoOf(tags, k)
                  ELSE infoOf(c.tags, k)]]
  /\ timers' = c.timers
  /\ pending' = c.pending

\* a step of the box that leaves the trailing input as it is
Commit(c) ==
  /\ CommitBox(c)
  /\ UNCHANGED inputVars

\* the handler ev ran to c; a handler other than a timer calls onChange never
Ran(ev, c) ==
  /\ c.COUNTER <= MaxCounter
  /\ Commit(c)
  /\ out' = [Quiet EXCEPT !.by = ev, !.threw = c.threw]

TimerRoom == Len(timers) < MaxTimers

VetoRoom == onDeleteTag => Len(pending) < MaxPending

\* isFocused of the trailing input, focused === INPUT_EDIT of an editor
isFocused(index) ==
  /\ curPos = index
  /\ showSelect
  /\ IF index = Len(tags)
     THEN curPosType \in {FocusPosType.INPUT, FocusPosType.INPUT_EDIT}
     ELSE curPosType = FocusPosType.INPUT_EDIT

\* the editor of the tag at index is shown
editorOpen(index) ==
  hasTag(tags, index) /\ tags[index + 1].key \in inEditing /\ active

\* Enter and Tab dispatch "click-input" first when the input is not focused
afterEnter(c, index, enter) ==
  IF enter /\ ~isFocused(index)
  THEN tagClickInput(c, index, "undefined")
  ELSE c

\* the event the trailing input dispatches when it commits st
inputEvent(st) == addTagByInputValue(st, useableAttributes(tags), "add")

\* the event the editor of the tag at index dispatches when it commits st
editorEvent(index, st) ==
  addTagByInputValue(st, tagUseableAttributes(tags, index), "edit")

\* the attribute the editor of the tag at index finds in text
editorAttribute(index, text) ==
  findAttribute(text, tagUseableAttributes(tags, index))

BoxClick == Ran("open", open(Cur))

OutsideClick ==
  /\ TimerRoom
  /\ Ran("close", close(Cur))

\* the trailing input commits by Enter or Tab, or by a value selection
InputCommitOf(st, enter) ==
  /\ active
  /\ TimerRoom
  /\ Len(tags) < MaxTags
  /\ COUNTER < MaxCounter
  /\ inputEvent(st) # NoEvent
  /\ Ran("add",
         tagAdd(afterEnter(Cur, Len(tags), enter), Len(tags),
                inputEvent(st)))

InputCommit(states) ==
  \E st \in states, enter \in BOOLEAN : InputCommitOf(st, enter)

EditorCommitOf(index, st, enter) ==
  /\ editorOpen(index)
  /\ TimerRoom
  /\ editorEvent(index, st) # NoEvent
  /\ Ran("edit",
         tagEditCommit(afterEnter(Cur, index, enter), index,
                       editorEvent(index, st)))

EditorCommit(states) ==
  \E index \in 0..(Len(tags) - 1), st \in states, enter \in BOOLEAN :
    EditorCommitOf(index, st, enter)

\* Escape in an open editor
EditorCancelOf(index) ==
  /\ editorOpen(index)
  /\ Ran("edit-cancel",
         tagEditCancel(Cur, index))

EditorCancel == \E index \in 0..(Len(tags) - 1) : EditorCancelOf(index)

\* text typed into an open editor
EditorInputOf(index, text) ==
  /\ editorOpen(index)
  /\ TimerRoom
  /\ Len(trim(text)) <= 0 => VetoRoom
  /\ Ran(IF Len(trim(text)) <= 0 THEN "del-edit" ELSE "editing",
         editSetInputValue(Cur, index, text))

EditorInput(texts) ==
  \E index \in 0..(Len(tags) - 1), text \in texts : EditorInputOf(index, text)

\* the remove button of a tag, rendered when its attribute is removable
RemoveClickOf(index) ==
  /\ active
  /\ TimerRoom
  /\ VetoRoom
  /\ tags[index + 1].attr # NoAttr
       => AttributeOf(tags[index + 1].attr).removeable
  /\ Ran("del-click",
         tagDel(Cur, index, "click"))

RemoveClick == \E index \in 0..(Len(tags) - 1) : RemoveClickOf(index)

\* backspace in the empty trailing input (index = tags.length) or on a tag
BackspaceOf(index) ==
  /\ index = Len(tags) => active
  /\ TimerRoom
  /\ VetoRoom
  /\ Ran("del-keyboard",
         tagDel(Cur, index, "keyboard"))

Backspace == \E index \in 0..Len(tags) : BackspaceOf(index)

TagClickOf(index) ==
  /\ TimerRoom
  /\ Ran("click",
         tagClick(Cur, index))

TagClick == \E index \in 0..(Len(tags) - 1) : TagClickOf(index)

\* a click in the trailing input (index = tags.length) or in an open editor
InputClickOf(index) ==
  /\ index < Len(tags) => editorOpen(index)
  /\ Ran("click-input",
         tagClickInput(Cur, index,
                       IF index < Len(tags) THEN "edit" ELSE "undefined"))

InputClick == \E index \in 0..Len(tags) : InputClickOf(index)

\* the clear button, rendered while active with at least one tag
ClearClick ==
  /\ active
  /\ Len(tags) > 0
  /\ TimerRoom
  /\ Ran("clear",
         handleClear(Cur))

\* the search button; the call of onSearchButtonClick it delays by 100 ms
\* changes nothing of the box
SearchClickOf(st, est) ==
  /\ timers = <<>>
  /\ LET r == handleSearch(Cur, st, est)
     IN  /\ Len(r.c.tags) <= MaxTags
         /\ r.c.COUNTER <= MaxCounter
         /\ Commit(r.c)
         /\ out' = IF r.notified
                    THEN [onChange |-> TRUE, by |-> "search",
                          list |-> getValue(tags), threw |-> FALSE]
                    ELSE [Quiet EXCEPT !.by = "search"]

SearchClick(states) ==
  \E st \in states, est \in [0..(Len(tags) - 1) -> states] :
    SearchClickOf(st, est)

settled(outcome) ==
  CASE outcome = "true" -> "del-resolved-true"
    [] outcome = "false" -> "del-resolved-false"
    [] OTHER -> "del-rejected"

\* the onDeleteTag promise of the k-th suspended "del" settles
VetoSettlesOf(k, outcome) ==
  /\ TimerRoom
  /\ Ran(settled(outcome),
         delResume([Cur EXCEPT !.pending =
                      SubSeq(pending, 1, k - 1)
                        \o SubSeq(pending, k + 1, Len(pending))],
                   pending[k], outcome))

VetoSettles ==
  \E k \in 1..Len(pending), outcome \in {"true", "false", "reject"} :
    VetoSettlesOf(k, outcome)

\* the host renders the box with the list onChange has just handed it
HostAccepts ==
  /\ out.onChange
  /\ Ran("value", valueSync(Cur, out.list))

\* the host renders the box with a list of its own
HostChanges(lists) ==
  \E v \in lists : Ran("value", valueSync(Cur, v))

\* the oldest setTimeout callback runs: notifyChange, then the callback
TimerFires ==
  /\ timers # <<>>
  /\ LET t == Head(timers)
         c == runCallback([Cur EXCEPT !.timers = Tail(timers)], t.cb)
     IN  /\ Commit(c)
         /\ out' = IF t.notify
                    THEN [onChange |-> TRUE, by |-> t.by,
                          list |-> getValue(t.newTags), threw |-> c.threw]
                    ELSE [Quiet EXCEPT !.threw = c.threw]

(***************************************************************************)
(* The trailing input, event by event.                                     *)
(***************************************************************************)
\* the attributes prop of the trailing input in a render with the tags list
inputAttributes(list) ==
  SelectSeq(catalog, LAMBDA item : item.key \notin selectedAttrKeys(list))

\* a callback the trailing input schedules in the current render
inputTimer(fn) ==
  [fn |-> fn, cl |-> input, attributes |-> inputAttributes(tags),
   tags |-> tags]

\* dispatchTagEvent of a render of the box with state c
dispatched(c, events) ==
  IF events = <<>> THEN c ELSE tagAdd(c, Len(c.tags), events[1])

InputRoom(events) ==
  events # <<>>
    => TimerRoom /\ Len(tags) < MaxInputTags /\ COUNTER < MaxCounter

\* the handler named by ran: r is what it did to the input, c to the box,
\* waiting the callbacks left to run
InputRan(by, c, r, waiting) ==
  /\ c.COUNTER <= MaxCounter
  /\ Len(r.state.inputValue) <= MaxBuffer
  /\ Len(waiting) + Len(r.timers) <= MaxInputTimers
  /\ CommitBox(c)
  /\ out' = [Quiet EXCEPT !.by = by, !.threw = c.threw]
  /\ input' = valueStrEffect(input, r.state, inputAttributes(c.tags))
  /\ inputTimers' =
       waiting \o [i \in 1..Len(r.timers) |-> inputTimer(r.timers[i])]
  /\ sent' = [events |-> r.events, returned |-> r.returned]
  /\ catalog' = catalog
  /\ select' = select

\* handleInputChange
InputTypeOf(text) ==
  /\ active
  /\ LET r == done(setInputValue(input, input, inputAttributes(tags), "add",
                                 text), <<>>, "none", <<>>)
     IN  InputRan("change", Cur, r, inputTimers)

InputType(texts) == \E text \in texts : InputTypeOf(text)

\* a click in the trailing input with the caret or the selection it leaves:
\* refreshShow of the input element, then handleInputClick of its wrapper
InputClickAtOf(start, end) ==
  /\ active
  /\ LET r == done(refreshShow(input, input, inputAttributes(tags), start,
                               end), <<>>, "none", <<>>)
     IN  InputRan("click-input",
                  tagClickInput(Cur, Len(tags), "undefined"), r, inputTimers)

\* a click leaves the caret somewhere in the text
InputClickAt ==
  \E caret \in 0..Len(input.inputValue) : InputClickAtOf(caret, caret)

\* an item of the attribute suggestions, rendered while showAttrSelect
AttrSelectOf(i) ==
  /\ active
  /\ input.showAttrSelect
  /\ LET r == handleAttrSelect(input, input, inputAttributes(tags), "add",
                               inputAttributes(tags)[i])
     IN  InputRan("attr-select", Cur, r, inputTimers)

AttrSelect == \E i \in 1..Len(inputAttributes(tags)) : AttrSelectOf(i)

\* onSelect of the value suggestions, rendered while showValueSelect and an
\* attribute is stored
ValueSelectOf(values) ==
  /\ active
  /\ input.showValueSelect
  /\ input.attribute # NoAttr
  /\ LET r == handleValueSelect(input, input, inputAttributes(tags), "add",
                                values)
     IN  /\ InputRoom(r.events)
         /\ InputRan("value-select", dispatched(Cur, r.events),
                     r, inputTimers)

ValueSelect(lists) == \E values \in lists : ValueSelectOf(values)

InputPasteOf(text, start, end) ==
  /\ active
  /\ LET r == handlePaste(input, input, inputAttributes(tags), "add", text,
                          start, end)
     IN  InputRan("paste", Cur, r, inputTimers)

\* the text replaces everything selected, or goes in at the end
InputPaste(texts) ==
  \E text \in texts :
    \E start \in {0, Len(input.inputValue)} :
      InputPasteOf(text, start, Len(input.inputValue))

\* Enter or Tab that reaches handleKeyDown of the trailing input
InputEnter ==
  /\ active
  /\ LET r == addTagByInputValueRun(input, input, inputAttributes(tags),
                                    "add")
     IN  /\ InputRoom(r.events)
         /\ InputRan("enter",
                     dispatched(afterEnter(Cur, Len(tags), TRUE), r.events),
                     r, inputTimers)

\* the selection selectValue sets before its refreshShow, in an input
\* element that holds live
selected(text, attributes, live) ==
  LET pos == getAttrStrAndValueStr(text, attributes).pos
      from == IF pos < 0 THEN 0 ELSE pos + 2
      end == IF Len(text) < Len(live) THEN Len(text) ELSE Len(live)
  IN  [start |-> IF from < end THEN from ELSE end, end |-> end]

\* the oldest callback of the trailing input runs in the render it closed
\* over
InputTimerFires ==
  /\ inputTimers # <<>>
  /\ LET t == Head(inputTimers)
         sel == selected(t.cl.inputValue, t.attributes, input.inputValue)
         r == IF t.fn = "addTagByInputValue"
              THEN addTagByInputValueRun(input, t.cl, t.attributes, "add")
              ELSE done(refreshShow(input, t.cl, t.attributes, sel.start,
                                    sel.end), <<>>, "none", <<>>)
     IN  /\ InputRoom(r.events)
         /\ InputRan(t.fn,
                     IF r.events = <<>> THEN Cur
                     ELSE dispatched([Cur EXCEPT !.tags = t.tags], r.events),
                     r, Tail(inputTimers))

\* handleTagEvent of the box for the events an input at index dispatched,
\* and close of the context
RECURSIVE applied(_, _, _)
applied(c, index, events) ==
  IF events = <<>>
  THEN c
  ELSE LET ev == Head(events)
           c1 == CASE ev.type = "close" -> close(c)
                   [] ev.type = "click-input" ->
                        tagClickInput(c, index, ev.payload)
                   [] ev.type = "del" -> tagDel(c, index, ev.payload)
                   [] ev.type = "add" -> tagAdd(c, index, ev)
                   [] ev.type = "edit" -> tagEditCommit(c, index, ev)
                   [] ev.type = "edit-cancel" -> tagEditCancel(c, index)
                   [] OTHER -> c
       IN  applied(c1, index, Tail(events))

\* room for what the events make the box keep
KeyRoom(events) ==
  /\ events # <<>> => TimerRoom
  /\ (\E i \in 1..Len(events) : events[i].type = "add")
       => Len(tags) < MaxInputTags /\ COUNTER < MaxCounter
  /\ (\E i \in 1..Len(events) : events[i].type = "del") => VetoRoom

\* a key pressed in the trailing input
InputKeyOf(key, answer) ==
  /\ active
  /\ LET r == handleKeyDown(input, input, inputAttributes(tags), "add", key,
                            isFocused(Len(tags)), answer)
     IN  /\ KeyRoom(r.events)
         /\ InputRan(key, applied(Cur, Len(tags), r.events), r, inputTimers)

InputKey(pressed, lists) ==
  \E key \in pressed :
    \E answer \in valueSelectAnswers(input, key, lists) :
      InputKeyOf(key, answer)

\* the refreshShow a left or right key delayed runs, in the render the key
\* was pressed in, with the caret where the browser has moved it
CaretTimerFires ==
  /\ inputTimers # <<>>
  /\ Head(inputTimers).fn = "refreshShow"
  /\ \E caret \in 0..Len(input.inputValue) :
       LET t == Head(inputTimers)
           r == done(refreshShow(input, t.cl, t.attributes, caret, caret),
                     <<>>, "none", <<>>)
       IN  InputRan("refreshShow", Cur, r, Tail(inputTimers))

\* the host renders the box with another attributes prop
CatalogChanges(catalogs) ==
  \E attributes \in catalogs \ {catalog} :
    /\ catalog' = attributes
    /\ out' = [Quiet EXCEPT !.by = "attributes"]
    /\ sent' = Nothing
    /\ UNCHANGED <<active, curPos, curPosType, showSelect, tags, COUNTER,
                   value, onDeleteTag, disabled, inEditing, editInfo, timers,
                   pending, input,
                   inputTimers, select>>

\* a step of the value suggestions that leaves the box and the input alone
SelectRan(sel) ==
  /\ select' = sel
  /\ UNCHANGED <<boxVars, catalog, input, inputTimers, sent>>

SelectMounts(types, sources) ==
  \E type \in types, source \in sources :
    /\ ~select.mounted
    /\ select.id < MaxMounts
    /\ SelectRan(mount(select, type, source))

SelectUnmounts ==
  /\ select.mounted
  /\ SelectRan(unmount(select))

SelectResolves == \E p \in select.promises : SelectRan(resolved(select, p))

\* value suggestions that are mounted and unmounted while promises resolve
NextSelect ==
  \/ SelectMounts(SelectTypes, SelectSources)
  \/ SelectUnmounts
  \/ SelectResolves

SpecSelect == Init /\ [][NextSelect]_vars

\* the trailing input of an uncontrolled box
NextInput ==
  \/ BoxClick
  \/ InputType(InputTexts)
  \/ InputClickAt
  \/ AttrSelect
  \/ ValueSelect(ValueLists)
  \/ InputPaste(PasteTexts)
  \/ InputEnter
  \/ InputTimerFires
  \/ TimerFires

SpecInput == Init /\ [][NextInput]_vars

\* the trailing input of a box whose host changes the attributes it passes
NextCatalog ==
  \/ BoxClick
  \/ InputType(CatalogTexts)
  \/ InputClickAt
  \/ InputEnter
  \/ CatalogChanges(Catalogs)
  \/ TimerFires

SpecCatalog == Init /\ [][NextCatalog]_vars

\* the trailing input of an uncontrolled box, typed into and clicked
NextType ==
  \/ BoxClick
  \/ InputType(TypeTexts)
  \/ InputClickAt

SpecType == Init /\ [][NextType]_vars

\* the trailing input of an uncontrolled box and the keys pressed in it
NextKeys ==
  \/ BoxClick
  \/ InputType(KeyTexts)
  \/ InputClickAt
  \/ InputKey(PressedKeys, KeyLists)
  \/ CaretTimerFires
  \/ TimerFires

SpecKeys == Init /\ [][NextKeys]_vars

\* uncontrolled, no delete veto
Next ==
  \/ BoxClick
  \/ OutsideClick
  \/ InputCommit(InputStates)
  \/ EditorCommit(InputStates)
  \/ EditorCancel
  \/ EditorInput(EditTexts)
  \/ RemoveClick
  \/ Backspace
  \/ TagClick
  \/ InputClick
  \/ ClearClick
  \/ TimerFires

Spec == Init /\ [][Next]_vars

\* uncontrolled, no delete veto, with the search button
NextSearch ==
  \/ BoxClick
  \/ OutsideClick
  \/ InputCommit(SearchCommitStates)
  \/ EditorCommit(SearchCommitStates)
  \/ EditorCancel
  \/ EditorInput(SearchEditTexts)
  \/ RemoveClick
  \/ Backspace
  \/ TagClick
  \/ InputClick
  \/ ClearClick
  \/ SearchClick(SearchStates)
  \/ TimerFires

SpecSearch == Init /\ [][NextSearch]_vars

\* uncontrolled, no delete veto: tags are added, their editors opened,
\* typed into and cancelled, and what each editor was opened with is kept
InitEdit ==
  /\ active = FALSE
  /\ curPos = 0
  /\ curPosType = FocusPosType.INPUT
  /\ showSelect = TRUE
  /\ tags = <<>>
  /\ COUNTER = 0
  /\ value = NoValue
  /\ onDeleteTag = FALSE
  /\ disabled = FALSE
  /\ inEditing = {}
  /\ editInfo = [kept |-> TRUE, info |-> <<>>]
  /\ timers = <<>>
  /\ pending = <<>>
  /\ out = Quiet
  /\ InputInit

NextEdit ==
  \/ BoxClick
  \/ InputCommit(EditedStates)
  \/ TagClick
  \/ EditorInput(PreviewTexts)
  \/ EditorCancel
  \/ TimerFires

SpecEdit == InitEdit /\ [][NextEdit]_vars

\* uncontrolled, no delete veto, the host passes disabled
InitDisabled ==
  /\ active = FALSE
  /\ curPos = 0
  /\ curPosType = FocusPosType.INPUT
  /\ showSelect = TRUE
  /\ tags = <<>>
  /\ COUNTER = 0
  /\ value = NoValue
  /\ onDeleteTag = FALSE
  /\ disabled = TRUE
  /\ inEditing = {}
  /\ editInfo = NoInfo
  /\ timers = <<>>
  /\ pending = <<>>
  /\ out = Quiet
  /\ InputInit

NextDisabled ==
  \/ BoxClick
  \/ OutsideClick
  \/ InputCommit(HostInputStates)
  \/ TagClick
  \/ InputClick
  \/ TimerFires

SpecDisabled == InitDisabled /\ [][NextDisabled]_vars

\* the host supplies props.value, no delete veto
InitHost ==
  /\ active = FALSE
  /\ curPos = 0
  /\ curPosType = FocusPosType.INPUT
  /\ showSelect = TRUE
  /\ tags = <<>>
  /\ COUNTER = 0
  /\ value = [given |-> TRUE, list |-> <<>>]
  /\ onDeleteTag = FALSE
  /\ disabled = FALSE
  /\ inEditing = {}
  /\ editInfo = NoInfo
  /\ timers = <<>>
  /\ pending = <<>>
  /\ out = Quiet
  /\ InputInit

NextHost ==
  \/ BoxClick
  \/ InputCommit(HostInputStates)
  \/ EditorCommit(HostInputStates)
  \/ EditorInput(HostEditTexts)
  \/ RemoveClick
  \/ TagClick
  \/ HostAccepts
  \/ HostChanges(HostLists)
  \/ TimerFires

SpecHost == InitHost /\ [][NextHost]_vars

\* uncontrolled, the host configured onDeleteTag
InitVeto ==
  /\ active = FALSE
  /\ curPos = 0
  /\ curPosType = FocusPosType.INPUT
  /\ showSelect = TRUE
  /\ tags = <<>>
  /\ COUNTER = 0
  /\ value = NoValue
  /\ onDeleteTag = TRUE
  /\ disabled = FALSE
  /\ inEditing = {}
  /\ editInfo = NoInfo
  /\ timers = <<>>
  /\ pending = <<>>
  /\ out = Quiet
  /\ InputInit

NextVeto ==
  \/ BoxClick
  \/ InputCommit(VetoInputStates)
  \/ EditorInput(VetoEditTexts)
  \/ RemoveClick
  \/ Backspace
  \/ TagClick
  \/ ClearClick
  \/ VetoSettles
  \/ TimerFires

SpecVeto == InitVeto /\ [][NextVeto]_vars

(***************************************************************************)
(* Properties.                                                             *)
(***************************************************************************)
\* the tag at position j (from 1) of list holds a non-reusable attribute
holdsNonReusable(list, j) ==
  list[j].attr # NoAttr /\ ~AttributeOf(list[j].attr).reusable

\* the attribute keys of an attributes prop
offeredKeys(attributes) ==
  {attributes[k].key : k \in 1..Len(attributes)}

\* C1: starting from the empty list without a host value, whatever events
\* the tag inputs dispatch, no two tags of the list hold the same attribute
\* unless that attribute is reusable
C1_NoDuplicateAttribute ==
  \A i, j \in 1..Len(tags) :
    (i # j /\ tags[i].attr # NoAttr /\ tags[i].attr = tags[j].attr)
      => AttributeOf(tags[i].attr).reusable

\* a tag holds status, and a commit of "S: a" made while status was not
\* offered became a keyword tag
C1_Witness ==
  \E i, j \in 1..Len(tags) :
    /\ tags[i].attr = Attributes[1].key
    /\ tags[j].attr = NoAttr
    /\ tags[j].values = <<[name |-> Attributes[1].name \o <<Colon, Space, "a">>]>>

\* C2: the attributes offered to a tag and to the trailing input leave out
\* every non-reusable attribute another tag holds; a tag being edited is
\* still offered its own attribute
C2_OfferedAttributes ==
  /\ \A i \in 1..Len(tags) :
       LET keys == offeredKeys(tagUseableAttributes(tags, i - 1))
       IN  /\ \A j \in 1..Len(tags) \ {i} :
                holdsNonReusable(tags, j) => tags[j].attr \notin keys
           /\ (tags[i].edit /\ tags[i].attr # NoAttr) => tags[i].attr \in keys
  /\ \A j \in 1..Len(tags) :
       holdsNonReusable(tags, j)
         => tags[j].attr \notin offeredKeys(useableAttributes(tags))

\* a tag being edited holds a non-reusable attribute while another tag holds
\* another one
C2_Witness ==
  \E i, j \in 1..Len(tags) :
    /\ i # j
    /\ tags[i].edit /\ tags[i].key \in inEditing
    /\ holdsNonReusable(tags, i)
    /\ holdsNonReusable(tags, j)

\* the tag may be removed: it is a keyword tag or its attribute allows it
removable(tag) == tag.attr = NoAttr \/ AttributeOf(tag.attr).removeable

\* list without its element at position n (from 1)
without(list, n) ==
  [k \in 1..(Len(list) - 1) |-> IF k < n THEN list[k] ELSE list[k + 1]]

\* C3: a delete with source "keyboard" dispatched at index removes exactly
\* the tag before index when there is one and it is removable, and leaves the
\* other tags and their order alone; at index 0 the list stays as it is
C3_KeyboardDelete ==
  [][\A index \in 0..Len(tags) :
       (out'.by = "del-keyboard" /\ BackspaceOf(index))
         => tags' = IF index >= 1 /\ removable(tags[index])
                    THEN without(tags, index)
                    ELSE tags]_vars

\* a keyboard delete has just removed a tag and left another one
C3_Witness ==
  /\ out.by = "del-keyboard"
  /\ timers # <<>>
  /\ Head(timers).by = "del"
  /\ Len(tags) >= 1

\* C4: a tag whose attribute is not removable stays in the list over every
\* step, a delete from any source and a clear included; a clear leaves
\* exactly the non-removable tags, in their order
C4_NonRemovableKept ==
  [][/\ \A i \in 1..Len(tags) :
          ~removable(tags[i]) => tags[i].key \in keysOf(tags')
     /\ (out'.by = "clear" /\ ClearClick)
          => tags' = SelectSeq(tags, LAMBDA tag : ~removable(tag))]_vars

\* a keyboard delete has just aimed at a non-removable tag, which is still
\* there
C4_Witness ==
  /\ out.by = "del-keyboard"
  /\ timers = <<>>
  /\ hasTag(tags, curPos)
  /\ ~removable(tags[curPos + 1])

\* C7: an add from the trailing input appends exactly one tag with a fresh
\* id, keeps the other tags and their order, moves the focus index to the
\* trailing input behind the new tag and schedules one call of onChange
C7_Add ==
  [][\A st \in InputStates, enter \in BOOLEAN :
       (out'.by = "add" /\ InputCommitOf(st, enter))
         => /\ Len(tags') = Len(tags) + 1
            /\ SubSeq(tags', 1, Len(tags)) = tags
            /\ tags'[Len(tags')].attr = inputEvent(st).attr
            /\ tags'[Len(tags')].values = inputEvent(st).values
            /\ tags'[Len(tags')].key \notin keysOf(tags)
            /\ curPos' = Len(tags')
            /\ Len(timers') = Len(timers) + 1
            /\ SubSeq(timers', 1, Len(timers)) = timers
            /\ timers'[Len(timers')].notify
            /\ timers'[Len(timers')].newTags = tags'
            /\ ~out'.onChange]_vars

\* an add has just put a second tag behind the first
C7_Witness ==
  /\ out.by = "add"
  /\ Len(tags) = 2
  /\ curPos = 2
  /\ timers # <<>>
  /\ Head(timers).notify

\* C9: in every state, an edit an open editor can dispatch for the tag at
\* index replaces the attribute and the values of that tag and clears its
\* _edit flag, keeps the length and every other tag, and moves the focus to
\* index + 1 in mode INPUT
C9_Edit ==
  \A index \in 0..(Len(tags) - 1), st \in InputStates, enter \in BOOLEAN :
    (editorOpen(index) /\ editorEvent(index, st) # NoEvent)
      => LET payload == editorEvent(index, st)
             c == tagEditCommit(afterEnter(Cur, index, enter), index, payload)
         IN  /\ Len(c.tags) = Len(tags)
             /\ \A j \in 1..Len(tags) : j # index + 1 => c.tags[j] = tags[j]
             /\ c.tags[index + 1] =
                  [tags[index + 1] EXCEPT !.attr = payload.attr,
                                          !.values = payload.values,
                                          !.edit = FALSE]
             /\ c.curPos = index + 1
             /\ c.curPosType = FocusPosType.INPUT

\* an edit of the first of two tags has just committed an attribute
C9_Witness ==
  /\ out.by = "edit"
  /\ Len(tags) = 2
  /\ curPos = 1
  /\ tags[1].attr # NoAttr
  /\ ~tags[1].edit
  /\ timers # <<>>
  /\ Head(timers).by = "edit"

\* C5: with onDeleteTag configured, a delete leaves the list as it is and
\* schedules nothing until the promise settles; when it resolves to false the
\* list stays as it is and no call of onChange is made or scheduled
C5_Veto ==
  [][/\ (out'.by \in {"del-click", "del-keyboard", "del-edit"}
         /\ (RemoveClick \/ Backspace \/ EditorInput(VetoEditTexts)))
          => (tags' = tags /\ timers' = timers /\ ~out'.onChange)
     /\ \A k \in 1..Len(pending) :
          (out'.by = "del-resolved-false" /\ VetoSettlesOf(k, "false"))
            => (tags' = tags /\ timers' = timers /\ ~out'.onChange)]_vars

\* onDeleteTag has just answered false for a removable tag, which is still
\* there
C5_Witness ==
  /\ onDeleteTag
  /\ out.by = "del-resolved-false"
  /\ hasTag(tags, curPos)
  /\ removable(tags[curPos + 1])
  /\ timers = <<>>

\* C6: a promise of onDeleteTag that rejects is handled as one that resolves
\* to false: the list stays as it is, onChange is not called, and the handler
\* ends without an error
C6_RejectedVeto ==
  [][\A k \in 1..Len(pending) :
       (out'.by = "del-rejected" /\ VetoSettlesOf(k, "reject"))
         => /\ tags' = tags
            /\ timers' = timers
            /\ ~out'.onChange
            /\ ~out'.threw]_vars

\* C8: the ids of the tags of the list are pairwise distinct; ids are handed
\* out by a counter that never steps back, so that an id is not handed out
\* twice; an edit and an editing preview leave the id of every tag as it was
C8_Ids ==
  [][/\ \A i, j \in 1..Len(tags') : i # j => tags'[i].key # tags'[j].key
     /\ \A i \in 1..Len(tags') : tags'[i].key >= 0 /\ tags'[i].key < COUNTER'
     /\ COUNTER' >= COUNTER
     /\ (out'.by \in {"edit", "editing"} /\ ~out'.onChange)
          => /\ Len(tags') = Len(tags)
             /\ \A i \in 1..Len(tags) : tags'[i].key = tags[i].key]_vars

\* every callback waiting that will call onChange was scheduled by one of
\* the handlers named
notifiersAmong(handlers) ==
  \A k \in 1..Len(timers) : timers[k].notify => timers[k].by \in handlers

\* C10 as stated: onChange is called only as a result of an add, an edit, a
\* delete or a clear
C10_OnChangeSources ==
  /\ out.onChange => out.by \in {"add", "edit", "del", "clear"}
  /\ notifiersAmong({"add", "edit", "del", "clear"})

\* C10: onChange is called only as a result of an add, an edit, a delete or a
\* clear, or by a click on the search button that commits nothing; an
\* editing preview, an edit-cancel, a click, a click-input and a close
\* neither call it nor schedule a call
C10_OnChangeSourcesOrSearch ==
  /\ out.onChange => out.by \in {"add", "edit", "del", "clear", "search"}
  /\ notifiersAmong({"add", "edit", "del", "clear"})

\* the search button has just called onChange with a list that holds a tag
C10_Witness ==
  /\ out.onChange
  /\ out.by = "search"
  /\ out.list # <<>>

\* the tags of list that have at least one value, in the order of list
withValues(list) == SelectSeq(list, LAMBDA tag : tag.values # <<>>)

\* C11: every list handed to onChange holds, in order, exactly the tags of
\* the new list (the list the notifying handler wrote, or the current list
\* for the search button) that have at least one value
C11_NotifiedList ==
  [][out'.onChange
       => /\ \A i \in 1..Len(out'.list) : out'.list[i].values # <<>>
          /\ out'.list = IF out'.by = "search"
                          THEN withValues(tags)
                          ELSE withValues(Head(timers).newTags)]_vars

\* onChange has just been called by an add with a list that is shorter than
\* the list of the box, which holds a tag without a value
C11_Witness ==
  /\ out.onChange
  /\ out.by = "add"
  /\ Len(out.list) < Len(tags)
  /\ \E i \in 1..Len(tags) : tags[i].values = <<>>

\* local is the list of the host with an id given to every item without one
mirrors(local, host) ==
  /\ Len(local) = Len(host)
  /\ \A i \in 1..Len(host) :
       /\ local[i].attr = host[i].attr
       /\ local[i].values = host[i].values
       /\ local[i].edit = host[i].edit
       /\ host[i].key # NoKey => local[i].key = host[i].key

\* local has the tags of the host, whatever their ids, flags and previews
sameTags(local, host) ==
  /\ Len(local) = Len(host)
  /\ \A i \in 1..Len(host) : local[i].values = host[i].values

\* C12: while the host supplies value, an add, an edit and a delete schedule
\* a call of onChange with the list they propose and set the list of the box
\* to the value of the host; the list of the box never holds an add, an edit
\* or a delete the host has not handed back
C12_Controlled ==
  [][/\ (out'.by \in {"add", "edit", "del-click"} /\ ~out'.onChange)
          => LET t == timers'[Len(timers')]
             IN  /\ mirrors(tags', value.list)
                 /\ value' = value
                 /\ Len(timers') = Len(timers) + 1
                 /\ t.notify
                 /\ out'.by = "add"
                      => /\ Len(t.newTags) = Len(tags) + 1
                         /\ SubSeq(t.newTags, 1, Len(tags)) = tags
                 /\ out'.by = "edit"
                      => /\ Len(t.newTags) = Len(tags)
                         /\ \E i \in 1..Len(tags) :
                              /\ ~t.newTags[i].edit
                              /\ \A j \in 1..Len(tags) \ {i} :
                                   t.newTags[j] = tags[j]
                 /\ out'.by = "del-click"
                      => \E i \in 1..Len(tags) : t.newTags = without(tags, i)
     /\ sameTags(tags', value'.list)]_vars

\* an add has just proposed a tag to the host while the list of the box is
\* still the empty list of the host
C12_Witness ==
  /\ value.given
  /\ out.by = "add"
  /\ tags = <<>>
  /\ timers # <<>>
  /\ Head(timers).notify
  /\ Len(Head(timers).newTags) = 1

\* the attribute the input stores is among the attributes offered to it
storedOffered ==
  \E i \in 1..Len(inputAttributes(tags)) :
    inputAttributes(tags)[i].key = input.attribute

\* C13: a commit of the trailing input dispatches one add event with the
\* stored attribute and the stored values when the stored attribute is
\* offered and has a value; it dispatches an event without attribute only
\* when no attribute is stored; in every other case, as when the stored
\* attribute is no longer offered, it dispatches nothing
C13_Commit ==
  [][out'.by = "enter"
       => IF input.attribute # NoAttr /\ storedOffered /\ input.values # <<>>
          THEN sent'.events = <<[type |-> "add", attr |-> input.attribute,
                                 values |-> input.values]>>
          ELSE IF input.attribute = NoAttr
          THEN \A i \in 1..Len(sent'.events) :
                 sent'.events[i].attr = NoAttr
          ELSE sent'.events = <<>>]_vars

\* C14: a commit returns true exactly when it dispatched an event; a commit
\* by Enter of a buffer that is empty or white space only, with no attribute
\* stored, returns false, dispatches nothing and leaves the buffer and the
\* flags of the two suggestion lists as they were; a commit of the trailing
\* input that returns true leaves the buffer empty
C14_CommitReturn ==
  [][out'.by \in {"enter", "addTagByInputValue"}
       => /\ sent'.returned \in {"true", "false"}
          /\ sent'.returned = "true" <=> sent'.events # <<>>
          /\ sent'.returned = "true" => input'.inputValue = <<>>
          /\ (/\ out'.by = "enter"
              /\ input.attribute = NoAttr
              /\ trim(input.inputValue) = <<>>)
               => /\ sent'.returned = "false"
                  /\ sent'.events = <<>>
                  /\ input'.inputValue = input.inputValue
                  /\ input'.showAttrSelect = input.showAttrSelect
                  /\ input'.showValueSelect = input.showValueSelect]_vars

\* Enter in a buffer of one space, the attribute suggestions shown
C14_Witness ==
  /\ out.by = "enter"
  /\ sent.returned = "false"
  /\ input.attribute = NoAttr
  /\ input.inputValue = <<Space>>
  /\ input.showAttrSelect

\* C15: a commit without stored attribute drops the empty segments of the
\* buffer and dispatches only if a segment is left: a buffer of separators
\* and white space dispatches nothing and returns false, and no event
\* without attribute is dispatched with an empty list of values
C15_KeywordSegments ==
  [][out'.by \in {"enter", "addTagByInputValue"}
       => /\ \A i \in 1..Len(sent'.events) :
               sent'.events[i].attr = NoAttr
                 => /\ sent'.events[i].values # <<>>
                    /\ \A k \in 1..Len(sent'.events[i].values) :
                         sent'.events[i].values[k].name # <<>>
          /\ (/\ out'.by = "enter"
              /\ input.attribute = NoAttr
              /\ keywordList(input.inputValue) = <<>>)
               => sent'.events = <<>> /\ sent'.returned = "false"]_vars

\* Enter commits the buffer "a | b" of an input that stores no attribute
commitsTwoSegments ==
  /\ out'.by = "enter"
  /\ input.attribute = NoAttr
  /\ input.inputValue = <<"a", Space, Bar, Space, "b">>

\* C16 as stated: with no attribute matched, the commit of the buffer
\* "a | b" by Enter makes the list grow by two tags without attribute, one
\* with the values [a] and one with the values [b]
C16_TwoTags ==
  [][commitsTwoSegments
       => /\ Len(tags') = Len(tags) + 2
          /\ \E i, j \in 1..Len(tags') :
               /\ i # j
               /\ tags'[i].attr = NoAttr /\ tags'[i].values = <<ValueA>>
               /\ tags'[j].attr = NoAttr /\ tags'[j].values = <<ValueB>>]_vars

\* C16: with no attribute matched, the commit of the buffer "a | b" by Enter
\* makes the list grow by one tag without attribute, put at its end, whose
\* values are [a, b]; the tags before it stay
C16_OneTagTwoValues ==
  [][commitsTwoSegments
       => /\ Len(tags') = Len(tags) + 1
          /\ SubSeq(tags', 1, Len(tags)) = tags
          /\ tags'[Len(tags')].attr = NoAttr
          /\ tags'[Len(tags')].values = <<ValueA, ValueB>>
          /\ sent'.events = <<[type |-> "add", attr |-> NoAttr,
                               values |-> <<ValueA, ValueB>>]>>]_vars

C16_Witness ==
  /\ out.by = "enter"
  /\ Len(tags) = 1
  /\ tags[1].attr = NoAttr
  /\ tags[1].values = <<ValueA, ValueB>>
  /\ input.inputValue = <<>>

\* what a choice among the attribute suggestions does, for every attribute
\* offered while they are shown; kept says whether a buffer that holds
\* "<name>: " already is left as it is
attrSelectSets(kept) ==
  (active /\ input.showAttrSelect)
    => \A i \in 1..Len(inputAttributes(tags)) :
         LET attr == inputAttributes(tags)[i]
             str == attr.name \o <<Colon, Space>>
             r == handleAttrSelect(input, input, inputAttributes(tags),
                                   "add", attr)
         IN  /\ r.state.values = <<>>
             /\ r.events = <<>>
             /\ IF kept /\ contains(input.inputValue, str)
                THEN /\ r.state.inputValue = input.inputValue
                     /\ r.state.attribute = input.attribute
                ELSE /\ r.state.inputValue = str
                     /\ r.state.attribute = attr.key

\* what a choice of a list of values does, for every list that is not
\* empty, while the value suggestions of an offered attribute are shown
valueSelectSends ==
  (active /\ input.showValueSelect /\ input.attribute # NoAttr
     /\ storedOffered)
    => \A values \in ValueLists \ {<<>>} :
         LET r == handleValueSelect(input, input, inputAttributes(tags),
                                    "add", values)
         IN  /\ r.events = <<[type |-> "add", attr |-> input.attribute,
                              values |-> values]>>
             /\ r.state.inputValue = <<>>
             /\ r.state.attribute = NoAttr

\* C17 as stated: the choice of an offered attribute sets the buffer to
\* "<name>: " and empties the stored values; the choice of a list of values
\* that is not empty then dispatches one add event with the stored
\* attribute and exactly the values chosen, and leaves the buffer empty and
\* no attribute stored
C17_Select == attrSelectSets(FALSE) /\ valueSelectSends

\* C17: as above, except that a buffer in which "<name>: " occurs already
\* is kept as it is, with the attribute stored before, when that attribute
\* is chosen; the stored values are emptied then as well
C17_SelectOrKeep == attrSelectSets(TRUE) /\ valueSelectSends

\* an attribute was chosen, its value suggestions were opened by a click,
\* and two values were chosen
C17_Witness ==
  /\ out.by = "value-select"
  /\ sent.events = <<[type |-> "add", attr |-> Attributes[1].key,
                      values |-> <<ValueA, ValueB>>]>>
  /\ Len(tags) = 1
  /\ tags[1].attr = Attributes[1].key
  /\ tags[1].values = <<ValueA, ValueB>>
  /\ input.inputValue = <<>>
  /\ input.attribute = NoAttr

\* C18: a paste into an empty buffer of an input that stores no attribute
\* stores the pasted segments joined by " | " and schedules a commit; when
\* that commit runs next, with no event of the user in between, it
\* dispatches an add event whose values are the pasted segments and leaves
\* the buffer empty; a paste into a buffer that holds text schedules no
\* commit and dispatches nothing
C18_PasteCommits ==
  [][/\ (out'.by = "paste" /\ input.inputValue = <<>>
           /\ input.attribute = NoAttr)
          => /\ \E text \in PasteTexts : input'.inputValue = normalize(text)
             /\ Len(inputTimers') = Len(inputTimers) + 1
             /\ inputTimers'[Len(inputTimers')].fn = "addTagByInputValue"
     /\ (out.by = "paste" /\ out'.by = "addTagByInputValue")
          => /\ sent'.events = <<[type |-> "add", attr |-> NoAttr,
                                  values |-> keywordList(input.inputValue)]>>
             /\ input'.inputValue = <<>>
     /\ (out'.by = "paste" /\ input.inputValue # <<>>)
          => /\ inputTimers' = inputTimers
             /\ sent'.events = <<>>
             /\ tags' = tags]_vars

\* the entries of attributes whose name and one of the separators start text
matching(text, attributes, separators) ==
  {i \in 1..Len(attributes) :
     \E sep \in separators :
       startsWith(text, attributes[i].name \o <<sep>>)}

\* C19: an attribute is matched when its name and a colon, or its name and
\* a full-width colon, start the buffer: the parser then returns the length
\* of the name of a matching attribute as position and the text after the
\* separator as value text, and position -1 when none matches; the lookup
\* of setInputValue stores an attribute for such a text
C19_Separators ==
  active
    => LET attributes == inputAttributes(tags)
           found == matching(input.inputValue, attributes,
                             {Colon, FullWidthColon})
           r == getAttrStrAndValueStr(input.inputValue, attributes)
       IN  /\ found = {} => r.pos = -1
           /\ found # {}
                => \E i \in found :
                     /\ r.pos = Len(attributes[i].name)
                     /\ r.valueStr =
                          SubSeq(input.inputValue,
                                 Len(attributes[i].name) + 2,
                                 Len(input.inputValue))
           /\ \A text \in CatalogTexts :
                matching(text, attributes, {Colon, FullWidthColon}) # {}
                  => setInputValue(input, input, attributes, "add",
                                   text).attribute # NoAttr

\* the greatest element of a set of numbers that is not empty
last(S) == CHOOSE i \in S : \A j \in S : j <= i

\* C20: when several offered attributes match a text, the last of them in
\* the order of the catalog is the attribute recognised, in the result of
\* the parser and in the attribute setInputValue stores
C20_LastMatch ==
  active
    => LET attributes == inputAttributes(tags)
       IN  \A text \in CatalogTexts \cup {input.inputValue} :
             LET found == matching(text, attributes, {Colon})
             IN  Cardinality(found) > 1
                   => /\ getAttrStrAndValueStr(text, attributes).attrStr
                           = attributes[last(found)].name
                      /\ setInputValue(input, input, attributes, "add",
                                       text).attribute
                           = attributes[last(found)].key

\* what setInputValue stores as buffer for every text of TypeTexts, in every
\* state of an active box: cut(rest) is what follows "<name>: " when the
\* remainder rest holds a character that is not white space
storedBuffer(cut(_)) ==
  active
    => \A text \in TypeTexts :
         LET r == setInputValue(input, input, inputAttributes(tags), "add",
                                text)
             name == AttributeOf(r.attribute).name
             rest == SubSeq(text, Len(name) + 2, Len(text))
         IN  IF r.attribute = NoAttr
             THEN r.inputValue = text
             ELSE IF trim(rest) # <<>>
             THEN r.inputValue = name \o <<Colon, Space>> \o cut(rest)
             ELSE r.inputValue = name \o <<Colon>> \o rest

\* C21 as stated: with a recognised attribute the stored buffer is
\* "<name>: " followed by the trimmed remainder when the remainder holds a
\* character that is not white space, and "<name>:" followed by the
\* remainder as it is otherwise; with no recognised attribute the buffer is
\* the text given
C21_Trimmed == storedBuffer(trim)

\* C21: as above, where only the white space that leads the remainder is
\* removed and the white space that ends it is kept
C21_LeadingTrimmed == storedBuffer(TrimLeft)

\* "S:a " was typed and is stored as "S: a "
C21_Witness ==
  /\ out.by = "change"
  /\ input.attribute = Attributes[1].key
  /\ input.inputValue = Attributes[1].name \o <<Colon, Space, "a", Space>>

\* the parser applied to the buffer setInputValue stores for a text and to
\* the text itself, for every text of TypeTexts in every state of an active
\* box: the names are the same, and the value texts after cut
reparsed(cut(_)) ==
  active
    => \A text \in TypeTexts :
         LET attributes == inputAttributes(tags)
             stored == setInputValue(input, input, attributes, "add",
                                     text).inputValue
             once == getAttrStrAndValueStr(text, attributes)
             again == getAttrStrAndValueStr(stored, attributes)
         IN  (once.pos >= 0 \/ again.pos >= 0)
               => /\ again.pos = once.pos
                  /\ again.attrStr = once.attrStr
                  /\ cut(again.valueStr) = cut(once.valueStr)

asParsed(valueStr) == valueStr

\* C22: the parser gives the same attribute name and the same value text
\* for the buffer setInputValue stores for a text as for the text itself
C22_Idempotent == reparsed(asParsed)

\* the suggestions shown are those of the attributes
attrShown(s) == s.showAttrSelect /\ ~s.showValueSelect

\* the suggestions shown are those of the values
valueShown(s) == s.showValueSelect /\ ~s.showAttrSelect

\* C23: refreshShow, for every selection in the buffer of an active box,
\* shows the attribute suggestions and hides the value suggestions when the
\* parser finds no attribute or the selection starts at or before the match
\* position; otherwise, when an attribute is stored and the selection ends
\* after the match position, it shows the value suggestions and hides the
\* attribute suggestions; it changes nothing else of the state
C23_RefreshShow ==
  active
    => \A start \in 0..Len(input.inputValue) :
         \A end \in start..Len(input.inputValue) :
           LET attributes == inputAttributes(tags)
               pos == getAttrStrAndValueStr(input.inputValue, attributes).pos
               r == refreshShow(input, input, attributes, start, end)
           IN  /\ (pos < 0 \/ start <= pos) => attrShown(r)
               /\ (~(pos < 0 \/ start <= pos)
                     /\ input.attribute # NoAttr /\ end > pos)
                    => valueShown(r)
               /\ [r EXCEPT !.showAttrSelect = input.showAttrSelect,
                            !.showValueSelect = input.showValueSelect]
                    = input

\* "S:a " is stored as "S: a ", a click with the caret behind the colon has
\* opened the value suggestions
C23_Witness ==
  /\ out.by = "click-input"
  /\ input.inputValue = Attributes[1].name \o <<Colon, Space, "a", Space>>
  /\ input.attribute = Attributes[1].key
  /\ valueShown(input)

\* C24: from every state of the suggestions of an active box, typing
\* "<name>:" for an offered attribute, which leaves the caret at the end,
\* shows the value suggestions and hides the attribute suggestions; the
\* re-evaluation after the caret has moved to position 0 then shows the
\* attribute suggestions and hides the value suggestions
C24_Visibility ==
  active
    => \A i \in 1..Len(inputAttributes(tags)) :
         LET attributes == inputAttributes(tags)
             text == attributes[i].name \o <<Colon>>
             typed == valueStrEffect(
                        input,
                        setInputValue(input, input, attributes, "add", text),
                        attributes)
             moved == refreshShow(typed, typed, attributes, 0, 0)
         IN  /\ valueShown(typed)
             /\ attrShown(moved)

\* the state of the editor of the tag at index once Tag.edit has called
\* setInfo on it
editorState(index) ==
  setInfo(NoInput, NoInput, tagUseableAttributes(tags, index), "edit",
          tags[index + 1])

\* the states of that editor after one more text of EditTexts
editorStates(index) ==
  {editorState(index)}
    \cup {setInputValue(editorState(index), editorState(index),
                        tagUseableAttributes(tags, index), "edit", text) :
            text \in EditTexts}

\* C25: in an open editor, whatever it has stored, setInputValue with a
\* text that is empty after trimming dispatches one "del" event with the
\* payload "edit" and no other event, and leaves the stored buffer,
\* attribute and values as they were; for the box the event is the delete
\* of that tag
C25_EditBlank ==
  \A index \in 0..(Len(tags) - 1) :
    editorOpen(index)
      => \A text \in {<<>>, <<Space>>} :
           /\ \A s \in editorStates(index) :
                LET r == setInputValueRun(s, s,
                                          tagUseableAttributes(tags, index),
                                          "edit", text)
                IN  /\ r.events = <<[type |-> "del", payload |-> "edit"]>>
                    /\ r.state = s
           /\ editSetInputValue(Cur, index, text)
                = tagDel(Cur, index, "edit")

\* a blank text typed into the editor of the only tag has removed the tag
C25_Witness ==
  /\ out.by = "del-edit"
  /\ tags = <<>>
  /\ COUNTER = 1

\* the value list setInputValue stores for every text of TypeTexts in every
\* state of an active box: the segments of the value text, trimmed, when
\* the attribute recognised differs from the one stored, and the list
\* stored before otherwise; toNone says whether a text without attribute
\* counts as a different attribute
storedValues(toNone) ==
  active
    => \A text \in TypeTexts :
         LET r == setInputValue(input, input, inputAttributes(tags), "add",
                                text)
             rest == IF r.attribute = NoAttr
                     THEN text
                     ELSE SubSeq(text,
                                 Len(AttributeOf(r.attribute).name) + 2,
                                 Len(text))
             segments == split(rest, Bar)
         IN  IF /\ r.attribute # input.attribute
                /\ (toNone \/ r.attribute # NoAttr)
             THEN /\ Len(r.values) = Len(segments)
                  /\ \A i \in 1..Len(segments) :
                       r.values[i] = [name |-> trim(segments[i])]
             ELSE r.values = input.values

\* C26 as stated: whenever the attribute setInputValue recognises differs
\* from the attribute stored, a change from an attribute to none included,
\* the stored value list becomes the value text split on "|" with every
\* segment trimmed and wrapped as a value without key; when the attribute
\* is unchanged the stored list stays as it was
C26_ValuesReplaced == storedValues(TRUE)

\* C26: as above, except that a text in which no attribute is recognised
\* leaves the stored list as it was
C26_ValuesReplacedByAttribute == storedValues(FALSE)

\* "S:a|" was typed: the attribute S and the values "a" and "" are stored
C26_Witness ==
  /\ out.by = "change"
  /\ input.attribute = Attributes[1].key
  /\ input.values = <<[name |-> <<"a">>], [name |-> <<>>]>>

\* handleKeyDown of the trailing input in the current render
pressed(key, answer) ==
  handleKeyDown(input, input, inputAttributes(tags), "add", key,
                isFocused(Len(tags)), answer)

\* pressed(key, answer) changes no state, dispatches nothing and delays
\* nothing
ignored(key, answer) ==
  /\ pressed(key, answer).state = input
  /\ pressed(key, answer).events = <<>>
  /\ pressed(key, answer).timers = <<>>
  /\ applied(Cur, Len(tags), pressed(key, answer).events) = Cur

\* C27: in every state of an active box, a key that is not backspace, tab,
\* enter, escape or an arrow changes no state and dispatches nothing, and
\* so does backspace while the buffer holds text; backspace in an empty
\* buffer, when the value suggestions do not answer false, dispatches one
\* "del" event with the payload "keyboard" and nothing else
C27_KeyPress ==
  active
    => /\ \A answer \in valueSelectAnswers(input, OtherKey, KeyLists) :
            ignored(OtherKey, answer)
       /\ \A answer \in valueSelectAnswers(input, "backspace", KeyLists) :
            IF Len(input.inputValue) > 0
            THEN ignored("backspace", answer)
            ELSE ~answer.handled
                   => /\ pressed("backspace", answer).events
                           = <<[type |-> "del", payload |-> "keyboard"]>>
                      /\ pressed("backspace", answer).state = input

\* a tag was added, and backspace in the empty buffer has removed it
C27_Witness ==
  /\ out.by = "backspace"
  /\ sent.events = <<[type |-> "del", payload |-> "keyboard"]>>
  /\ input.inputValue = <<>>
  /\ tags = <<>>
  /\ COUNTER = 1

\* the close the context is asked for
closing(events) ==
  SelectSeq(events, LAMBDA ev : ev.type = "close")

\* C28: in every state of an active box, Escape pressed in a TagInput that
\* holds the state of the input asks the context to close exactly when the
\* buffer is empty, and takes the cancel path whatever the value
\* suggestions answer: as an editor it dispatches one "edit-cancel" and
\* leaves its state as it is, otherwise it dispatches no tag event and
\* stores the empty buffer and no attribute
C28_Escape ==
  active
    => \A type \in {"add", "edit"} :
         \A answer \in valueSelectAnswers(input, "esc", KeyLists) :
           LET r == handleKeyDown(input, input, inputAttributes(tags), type,
                                  "esc", isFocused(Len(tags)), answer)
               rest == SelectSeq(r.events, LAMBDA ev : ev.type # "close")
           IN  /\ Len(closing(r.events))
                    = IF Len(input.inputValue) = 0 THEN 1 ELSE 0
               /\ r.timers = <<>>
               /\ IF type = "edit"
                  THEN /\ Len(rest) = 1
                       /\ rest[1].type = "edit-cancel"
                       /\ r.state = input
                  ELSE /\ rest = <<>>
                       /\ r.state.inputValue = <<>>
                       /\ r.state.attribute = NoAttr

\* Escape in the buffer "S: a": the buffer is empty, no attribute is
\* stored, the values of the attribute are what is left of it, and the
\* context was not asked to close
C28_Witness ==
  /\ out.by = "esc"
  /\ sent.events = <<>>
  /\ input.inputValue = <<>>
  /\ input.attribute = NoAttr
  /\ input.values = <<ValueA>>
  /\ active

\* C29: after "edit-cancel" the tag whose editor it closed has the
\* attribute and the values it had when Tag.edit opened the editor
C29_CancelRestores ==
  [][out'.by = "edit-cancel"
       => \A k \in inEditing \ inEditing' :
            /\ k \in keysOf(tags')
            /\ infoOf(tags', k) = editInfo.info[k]]_vars

\* addTagByInputValue ran in the handler with the result r
committed(r) == r.returned \in {"true", "false"}

\* C30: in every state of an active box, Enter and Tab are offered to the
\* handler of the attribute suggestions first, when these are shown, and
\* then to the handler of the value suggestions, when these are mounted;
\* addTagByInputValue runs exactly when no handler answered false
C30_EnterOrder ==
  active
    => \A key \in {"enter", "tab"} :
         \A answer \in valueSelectAnswers(input, key, KeyLists) :
           LET order == offeredTo(key, answer)
           IN  /\ input.showAttrSelect
                    => order # <<>> /\ order[1] = "attribute"
               /\ answer.present
                    => order # <<>> /\ order[Len(order)] = "value"
               /\ committed(pressed(key, answer)) <=> ~answer.handled

\* the position the box takes as focused: focusedInputIndex of a render
focusedInputIndex ==
  IF curPosType \in {FocusPosType.INPUT, FocusPosType.INPUT_EDIT}
  THEN curPos
  ELSE -1

\* C31: while the box is active and no callback of a handler is left to run,
\* the focus index lies in 0..tags.length, and with the focus mode INPUT it
\* is tags.length, the index of the trailing input
C31_FocusIndex ==
  active /\ timers = <<>>
    => /\ curPos \in 0..Len(tags)
       /\ curPosType = FocusPosType.INPUT => focusedInputIndex = Len(tags)

\* the instance mounted called a values() whose promise is not resolved yet
pendingSelect ==
  /\ select.mounted
  /\ select.source.kind = "promise"
  /\ \E p \in select.promises : p.owner = select.id

\* C32: a mounted single or multiple ValueSelect whose values is a function
\* returning a promise renders Loading while the promise is unresolved, and
\* afterwards the list for a non-empty result and Empty for an empty one
C32_Loading ==
  select.mounted /\ select.type \in {"single", "multiple"}
                 /\ select.source.kind = "promise"
    => IF pendingSelect
       THEN rendered(select) = "Loading"
       ELSE rendered(select) =
              IF select.source.result = <<>> THEN "Empty"
              ELSE IF select.type = "single" THEN "SingleValueSelect"
              ELSE "MultipleValueSelect"

\* C33: a promise that resolves when the instance that called values() is
\* unmounted leaves state.values as it is
C33_Unmounted ==
  \A p \in select.promises :
    ~select.mounted \/ p.owner # select.id
      => resolved(select, p).values = select.values

\* a promise with a non-empty result has resolved after its instance was
\* unmounted: nothing is pending and the stored list is still empty
C33_Witness ==
  /\ ~select.mounted
  /\ select.promises = {}
  /\ select.source.kind = "promise"
  /\ select.source.result # <<>>
  /\ select.values = arrayOf(<<>>)

\* C34: when no callback of a handler is left to run, the tags flagged _edit
\* are the tags whose inline editor is open
C34_EditingFlag ==
  timers = <<>>
    => \A i \in 1..Len(tags) : tags[i].edit <=> tags[i].key \in inEditing

\* the "del" handler p, suspended at onDeleteTag, aims at a tag it may remove
aimsAtRemovable(p) == removable(p.newTags[p.index + 1])

\* C35: when onDeleteTag resolves to true for a suspended delete of a
\* removable tag, the list after it is the current list without that tag:
\* what was added, edited or deleted in the meantime is kept
C35_BothEffects ==
  [][\A k \in 1..Len(pending) :
       (out'.by = "del-resolved-true" /\ VetoSettlesOf(k, "true")
          /\ aimsAtRemovable(pending[k]))
         => tags' = SelectSeq(tags, LAMBDA tag :
                      tag.key # pending[k].newTags[pending[k].index + 1].key)
    ]_vars

\* C36: the trailing input never has showAttrSelect and showValueSelect both
\* set, and has showValueSelect set only while it stores an attribute
C36_Flags ==
  /\ ~(input.showAttrSelect /\ input.showValueSelect)
  /\ input.showValueSelect => input.attribute # NoAttr

\* the value text of the buffer of the trailing input, as it is parsed
valueText ==
  getAttrStrAndValueStr(input.inputValue, inputAttributes(tags)).valueStr

\* C37: in every state of an active box, an event with an attribute that
\* addTagByInputValue of the trailing input dispatches carries the segments
\* of the value text of the buffer, split at "|" and trimmed, and none of
\* them is empty
C37_CommitValues ==
  active
    => LET r == addTagByInputValueRun(input, input, inputAttributes(tags),
                                      "add")
       IN  \A i \in 1..Len(r.events) :
             r.events[i].attr # NoAttr
               => /\ r.events[i].values = valuesOf(valueText)
                  /\ \A j \in 1..Len(r.events[i].values) :
                       Len(r.events[i].values[j].name) > 0

\* C38: at most one tag is flagged _edit
C38_OneEditing ==
  Cardinality({i \in 1..Len(tags) : tags[i].edit}) <= 1

\* the list holds a tag with the attribute and the values of the event ev
holdsTagOf(list, ev) ==
  \E i \in 1..Len(list) :
    list[i].attr = ev.attr /\ list[i].values = ev.values

\* C39: in every state of an active box, when the trailing input holds
\* something it can commit, the list handed to onSearchButtonClick for a
\* click on the search button holds the tag this click adds, and for every
\* tag flagged _edit whose editor holds something it can commit, the tag as
\* this click edits it
C39_SearchList ==
  active
    => \A st \in SearchCommitStates :
         \A est \in [0..(Len(tags) - 1) -> SearchCommitStates] :
           LET r == handleSearch(Cur, st, est)
               list == searchButtonTags(Cur)
           IN  /\ (inputEvent(st) # NoEvent /\ Len(tags) < MaxTags)
                    => /\ holdsTagOf(r.c.tags, inputEvent(st))
                       /\ \E i \in 1..Len(list) : list[i].key = COUNTER
               /\ \A index \in 0..(Len(tags) - 1) :
                    (tags[index + 1].edit
                       /\ editorEvent(index, est[index]) # NoEvent)
                      => holdsTagOf(list, editorEvent(index, est[index]))

\* C40: a disabled box that is not active stays so over every click on the
\* box, on a tag and in an input
C40_DisabledInactive ==
  [][(disabled /\ ~active /\ out'.by \in {"open", "click", "click-input"})
       => ~active']_vars

====
